---------------------------- MODULE Spec2Model ----------------------------
(***************************************************************************)
(* A model of the douyin_config batch editor (scanner.rs, app.rs,          *)
(* model.rs): the in-memory project list, the three batch edits, the       *)
(* direct field edits, save_all and scan, over a small file tree.          *)
(*                                                                         *)
(* Text is a sequence of one-character strings, so that trimming,          *)
(* splitting and the regular-expression replacements are computed as the   *)
(* code computes them.  A JSON document is the ordered sequence of its     *)
(* top-level entries.                                                      *)
(***************************************************************************)
EXTENDS Integers, Sequences, FiniteSets, TLC

-----------------------------------------------------------------------------
(* Text helpers: str::trim, str::split(','), join(","), trim_matches.      *)

IsWs(c) == c \in {" ", "\t", "\n"}

IsQuote(c) == c \in {"\"", "'"}

Min(S) == CHOOSE x \in S : \A y \in S : x <= y

Max(S) == CHOOSE x \in S : \A y \in S : y <= x

\* str::trim: s without its leading and trailing whitespace.
Trim(s) ==
    LET keep == {i \in 1..Len(s) : ~IsWs(s[i])}
    IN  IF keep = {} THEN <<>> ELSE SubSeq(s, Min(keep), Max(keep))

\* self.batch_xxx.trim().is_empty()
IsBlank(s) == Trim(s) = <<>>

\* s.replace(|c: char| c.is_whitespace(), "")
RemoveWhitespace(s) == SelectSeq(s, LAMBDA c : ~IsWs(c))

\* trimmed.trim_matches(&['"', '\'']): every leading and trailing quote.
TrimQuotes(s) ==
    LET keep == {i \in 1..Len(s) : ~IsQuote(s[i])}
    IN  IF keep = {} THEN <<>> ELSE SubSeq(s, Min(keep), Max(keep))

\* The positions of the commas of s, in order, then Len(s) + 1.
Cuts(s) ==
    LET commas == {i \in 1..Len(s) : s[i] = ","}
    IN  [k \in 1..(Cardinality(commas) + 1) |->
            IF k > Cardinality(commas) THEN Len(s) + 1
            ELSE CHOOSE i \in commas :
                     Cardinality({j \in commas : j < i}) = k - 1]

\* s.split(','): the pieces between commas; one piece more than commas.
SplitComma(s) ==
    LET cut == Cuts(s)
    IN  [k \in DOMAIN cut |->
            SubSeq(s, IF k = 1 THEN 1 ELSE cut[k - 1] + 1, cut[k] - 1)]

\* pieces.join(","): the characters of the pieces, a comma between pieces.
JoinComma(pieces) ==
    LET n == Len(pieces)
        \* where piece k starts in the result, less one
        off == [k \in 1..(n + 1) |->
                   IF k = 1 THEN 0
                   ELSE Cardinality(UNION {{j} \X (0..Len(pieces[j])) :
                                               j \in 1..(k - 1)})]
    IN  IF n = 0 THEN <<>>
        ELSE [x \in 1..(off[n + 1] - 1) |->
                 LET k == Max({j \in 1..n : off[j] < x})
                 IN  IF x - off[k] > Len(pieces[k]) THEN ","
                     ELSE pieces[k][x - off[k]]]

\* .map(|s| s.trim())
TrimEach(pieces) == [k \in DOMAIN pieces |-> Trim(pieces[k])]

\* .map(|id| format!("\"{}\"", id))
QuoteEach(ids) == [k \in DOMAIN ids |-> <<"\"">> \o ids[k] \o <<"\"">>]

\* Variant: only the leading quotes are removed (trim_start_matches).
UnquoteEachLeading(parts) ==
    [k \in DOMAIN parts |->
        SubSeq(Trim(parts[k]),
               Min({j \in 1..(Len(Trim(parts[k])) + 1) :
                       j = Len(Trim(parts[k])) + 1
                       \/ ~IsQuote(Trim(parts[k])[j])}),
               Len(Trim(parts[k])))]

\* trimmed.trim_matches(..) of each trimmed part
UnquoteEach(parts) == [k \in DOMAIN parts |-> TrimQuotes(Trim(parts[k]))]

\* .filter(|s| !s.is_empty())
NonEmpty(pieces) == SelectSeq(pieces, LAMBDA p : p # <<>>)

\* split(',').map(trim).filter(non-empty): scanner.rs 166-169
SplitIds(s) == NonEmpty(TrimEach(SplitComma(s)))

-----------------------------------------------------------------------------
(* Regular expressions of scanner.rs, matched over the text.               *)

LitAppId == <<".", "a", "p", "p", "I", "d">>

LitDouyinIds == <<".", "d", "o", "u", "y", "i", "n", "I", "d", "s">>

LitAt(s, i, lit) ==
    /\ i + Len(lit) - 1 <= Len(s)
    /\ \A k \in 1..Len(lit) : s[i + k - 1] = lit[k]

\* \s* : greedy; what follows is never whitespace, so no backtracking.
\* The first index from i on that holds no whitespace, or Len(s) + 1.
SkipWs(s, i) ==
    Min({j \in i..(Len(s) + 1) : j = Len(s) + 1 \/ ~IsWs(s[j])})

\* <lit>\s*=\s* at i: the index after it, or 0.
AssignAt(s, i, lit) ==
    LET Equals(j) == IF j <= Len(s) /\ s[j] = "=" THEN SkipWs(s, j + 1)
                     ELSE 0
    IN  IF LitAt(s, i, lit) THEN Equals(SkipWs(s, i + Len(lit))) ELSE 0

\* [^"']+ from i: the index of the first quote at or after i, or Len+1.
NextQuote(s, i) ==
    Min({j \in i..(Len(s) + 1) : j = Len(s) + 1 \/ IsQuote(s[j])})

\* .*?\] from i: the index of the first ']' with no newline before it, or 0.
NextBracket(s, i) ==
    LET Closing(j) == IF j <= Len(s) /\ s[j] = "]" THEN j ELSE 0
    IN  Closing(Min({k \in i..(Len(s) + 1) :
                        k = Len(s) + 1 \/ s[k] \in {"]", "\n"}}))

\* A match is [from, to): the range the replacement rewrites; to = 0 when
\* there is none.
NoMatch == [from |-> 0, to |-> 0]

\* (\.appId\s*=\s*["'])[^"']+(["']) at i: the range of the value.
AppIdMatchAt(s, i) ==
    LET Value(q, e) == IF e > q + 1 /\ e <= Len(s)
                       THEN [from |-> q + 1, to |-> e]
                       ELSE NoMatch
        Opening(q) == IF q = 0 \/ q > Len(s) \/ ~IsQuote(s[q]) THEN NoMatch
                      ELSE Value(q, NextQuote(s, q + 1))
    IN  Opening(AssignAt(s, i, LitAppId))

\* (\.douyinIds\s*=\s*\[).*?(\]) at i: the range of the bracket interior.
DouyinIdsMatchAt(s, i) ==
    LET Interior(q, e) == IF e # 0 THEN [from |-> q + 1, to |-> e]
                          ELSE NoMatch
        Opening(q) == IF q = 0 \/ q > Len(s) \/ s[q] # "[" THEN NoMatch
                      ELSE Interior(q, NextBracket(s, q + 1))
    IN  Opening(AssignAt(s, i, LitDouyinIds))

\* The leftmost of the matches found at the positions of a text.
Leftmost(found) ==
    IF found \subseteq {NoMatch} THEN NoMatch
    ELSE CHOOSE m \in found \ {NoMatch} :
             \A n \in found \ {NoMatch} : m.from <= n.from

\* Variant: the last match of the identifier pattern is taken.
LastAppIdMatch(s) ==
    IF \A i \in 1..Len(s) : AppIdMatchAt(s, i) = NoMatch THEN NoMatch
    ELSE AppIdMatchAt(s, Max({i \in 1..Len(s) :
                                 AppIdMatchAt(s, i) # NoMatch}))

\* The leftmost match of the identifier pattern in s
\* (Regex::captures, Regex::replace).
FirstAppIdMatch(s) == Leftmost({AppIdMatchAt(s, i) : i \in 1..Len(s)})

\* The leftmost match of the list pattern in s.
FirstDouyinIdsMatch(s) ==
    Leftmost({DouyinIdsMatchAt(s, i) : i \in 1..Len(s)})

\* Regex::replace: s with the range [m.from, m.to) of a match replaced by
\* v; s itself when nothing matched.
Splice(s, m, v) ==
    IF m = NoMatch THEN s
    ELSE SubSeq(s, 1, m.from - 1) \o v \o SubSeq(s, m.to, Len(s))

\* The text of a match's range; "" when nothing matched.
Captured(s, m) ==
    IF m = NoMatch THEN <<>> ELSE SubSeq(s, m.from, m.to - 1)

-----------------------------------------------------------------------------
(* Script codec: load_js_config and save_js_config on the file's text.     *)

\* scanner.rs 123-126: capture group 1 of the first identifier assignment.
ExtractAppId(content) == Captured(content, FirstAppIdMatch(content))

\* scanner.rs 128-142: the bracket interior split, trimmed, unquoted.
ExtractDouyinIds(content) ==
    LET Ids(m) == IF m = NoMatch THEN <<>>
                  ELSE NonEmpty(UnquoteEach(SplitComma(Captured(content, m))))
    IN  Ids(FirstDouyinIdsMatch(content))

\* The JsConfig built from a script's text.
load_js_config(content) ==
    LET Config(ids) == [app_id |-> ExtractAppId(content),
                        douyin_ids |-> ids,
                        douyin_ids_str |-> JoinComma(ids)]
    IN  Config(ExtractDouyinIds(content))

\* Variant: an identifier that finds no assignment is appended.
ReplaceAppIdOrAppend(content, app_id) ==
    IF FirstAppIdMatch(content) = NoMatch
    THEN content \o LitAppId \o <<"=", "\"">> \o app_id \o <<"\"">>
    ELSE Splice(content, FirstAppIdMatch(content), app_id)

\* scanner.rs 159-162: the first identifier assignment's value replaced.
ReplaceAppId(content, app_id) ==
    Splice(content, FirstAppIdMatch(content), app_id)

\* scanner.rs 166-175: "id1","id2" rebuilt from the editable string.
QuotedIds(douyin_ids_str) ==
    JoinComma(QuoteEach(SplitIds(douyin_ids_str)))

\* scanner.rs 178-181: the first list assignment's interior replaced.
ReplaceDouyinIds(content, ids_str) ==
    Splice(content, FirstDouyinIdsMatch(content), ids_str)

\* Variant: the list written is the stored list, not the edited string.
JsReplaceFromList(content, config) ==
    ReplaceDouyinIds(ReplaceAppId(content, config.app_id),
                     JoinComma(QuoteEach(config.douyin_ids)))

\* The text save_js_config writes for the text it read.
JsReplace(content, config) ==
    ReplaceDouyinIds(ReplaceAppId(content, config.app_id),
                     QuotedIds(config.douyin_ids_str))

-----------------------------------------------------------------------------
(* Manifest codec: serde on ProjectConfig { appid, projectname, extra }.   *)

JStr(s) == [t |-> "str", s |-> s]

JOther(tag) == [t |-> tag, s |-> <<>>]

KnownKeys == {"appid", "projectname"}

HasKey(doc, key) == \E i \in 1..Len(doc) : doc[i].k = key

ValueOf(doc, key) ==
    doc[CHOOSE i \in 1..Len(doc) :
            doc[i].k = key /\ \A j \in 1..(i - 1) : doc[j].k # key].v

\* #[serde(default)] String: "" when the key is absent.
FieldOrDefault(doc, key) ==
    IF HasKey(doc, key) THEN ValueOf(doc, key).s ELSE <<>>

\* A String field refuses a value that is not a JSON string.
FieldTypeOk(doc, key) == HasKey(doc, key) => ValueOf(doc, key).t = "str"

\* serde_json::from_str::<ProjectConfig> succeeds on this file.
ConfigParses(file) ==
    /\ file.kind = "json"
    /\ FieldTypeOk(file.body, "appid")
    /\ FieldTypeOk(file.body, "projectname")

\* Variant: ProjectConfig without the flattened extra field.
load_config_without_extra(file) ==
    [appid |-> FieldOrDefault(file.body, "appid"),
     projectname |-> FieldOrDefault(file.body, "projectname"),
     extra |-> <<>>]

\* The ProjectConfig read from a file that parses.
load_config(file) ==
    [appid |-> FieldOrDefault(file.body, "appid"),
     projectname |-> FieldOrDefault(file.body, "projectname"),
     extra |-> SelectSeq(file.body, LAMBDA e : e.k \notin KnownKeys)]

\* serde_json::to_string_pretty(&item.config): the two fields, then extra.
ToJson(config) ==
    [kind |-> "json",
     body |-> <<[k |-> "appid", v |-> JStr(config.appid)],
                [k |-> "projectname", v |-> JStr(config.projectname)]>>
              \o config.extra]

-----------------------------------------------------------------------------
(* The file tree.  A directory holds a manifest and the two candidate      *)
(* scripts; a file is [kind, body] with kind "none" (no such file), "bad"  *)
(* (bytes that are not JSON), "json" (body: the entries) or "text".        *)

NoFile == [kind |-> "none", body |-> <<>>]

Malformed == [kind |-> "bad", body |-> <<>>]

TextFile(text) == [kind |-> "text", body |-> text]

JsonFile(doc) == [kind |-> "json", body |-> doc]

\* d.appId="o",d.douyinIds=["x","y"]
ScriptMinified ==
    <<"d", ".", "a", "p", "p", "I", "d", "=", "\"", "o", "\"", ",", "d",
      ".", "d", "o", "u", "y", "i", "n", "I", "d", "s", "=", "[", "\"",
      "x", "\"", ",", "\"", "y", "\"", "]">>

\* .appId = 'p' and .douyinIds=[ 'x' ] on two lines
ScriptSpaced ==
    <<".", "a", "p", "p", "I", "d", " ", "=", " ", "'", "p", "'", "\n",
      ".", "d", "o", "u", "y", "i", "n", "I", "d", "s", "=", "[", " ", "'",
      "x", "'", " ", "]">>

\* a script with neither marker
ScriptOther ==
    <<"v", "a", "r", " ", "q", "=", "1">>

ManifestFull ==
    JsonFile(<<[k |-> "appid", v |-> JStr(<<"o">>)],
               [k |-> "setting", v |-> JOther("obj")],
               [k |-> "projectname", v |-> JStr(<<"g">>)]>>)

ManifestPartial ==
    JsonFile(<<[k |-> "compileType", v |-> JStr(<<"m">>)],
               [k |-> "projectname", v |-> JStr(<<"h">>)]>>)

\* valid JSON whose appid is a number
ManifestWrongType ==
    JsonFile(<<[k |-> "appid", v |-> JOther("num")],
               [k |-> "projectname", v |-> JStr(<<"g">>)]>>)

\* WalkDir::new(root).min_depth(1).max_depth(5)
MaxDepth == 5

\* A directory: its manifest, the depth of the manifest below the root,
\* and the two candidate scripts.
DirMinified ==
    [manifest |-> ManifestFull, depth |-> 2,
     index_js |-> TextFile(ScriptMinified), app_js |-> NoFile]

DirNoScript ==
    [manifest |-> ManifestPartial, depth |-> 2,
     index_js |-> NoFile, app_js |-> NoFile]

DirSpaced ==
    [manifest |-> ManifestFull, depth |-> MaxDepth,
     index_js |-> TextFile(ScriptOther), app_js |-> TextFile(ScriptSpaced)]

DirBroken ==
    [manifest |-> Malformed, depth |-> 2,
     index_js |-> TextFile(ScriptMinified), app_js |-> NoFile]

DirWrongType ==
    [manifest |-> ManifestWrongType, depth |-> 2,
     index_js |-> NoFile, app_js |-> NoFile]

DirDeep ==
    [manifest |-> ManifestFull, depth |-> MaxDepth + 1,
     index_js |-> NoFile, app_js |-> NoFile]

\* The trees a session starts on, directories in WalkDir's order.
InitialDisks ==
    {<<DirMinified, DirNoScript>>,
     <<DirSpaced, DirMinified>>,
     <<DirBroken, DirNoScript>>,
     <<DirWrongType, DirDeep, DirNoScript>>}

-----------------------------------------------------------------------------
(* Bounds and input alphabets.                                             *)

\* Handlers run in one session.
MaxOps == 4

\* What the user types into the batch AppID and project-name boxes.
BatchTexts == {<<>>, <<" ">>, <<"n">>}

\* What the user types into the batch DouyinIDs box.
BatchIdTexts == {<<>>, <<" ", "\t">>, <<" ", "z", ",", " ", "w">>}

\* What the user types over a single record's AppID or Name box.
DirectTexts == {<<"e">>}

\* What the user types over a single record's JS AppID box.
DirectJsTexts == {<<>>, <<"e">>}

\* What the user types over a single record's Douyin IDs box.
DirectIdTexts == {<<"w", " ">>, <<",">>}

\* How the file system answers one record's save: every call succeeds, or
\* the named call fails (and leaves its file as it was).
Outcomes == {"ok", "manifest_write", "script_read", "script_write"}

-----------------------------------------------------------------------------
(* State.                                                                  *)

VARIABLES
    disk,               \* the file tree: Seq of directories
    root_path,          \* MyApp.root_path: "none" or "root"
    projects,           \* MyApp.projects: Seq of ProjectItem
    batch_appid,        \* MyApp.batch_appid
    batch_projectname,  \* MyApp.batch_projectname
    batch_douyin_ids,   \* MyApp.batch_douyin_ids
    status_msg,         \* MyApp.status_msg
    ops,                \* handlers run so far
    lastOp,             \* history: the handler that ran last and its input
    pre,                \* history: projects, disk and fsLog when it started
    fsLog,              \* history: the file-system calls it made, in order
    editor              \* BytegameConfigEditor (change_appconfig)

vars ==
    <<disk, root_path, projects, batch_appid, batch_projectname,
      batch_douyin_ids, status_msg, ops, lastOp, pre, fsLog, editor>>

\* js_config: None
NoJs ==
    [some |-> FALSE, app_id |-> <<>>, douyin_ids |-> <<>>,
     douyin_ids_str |-> <<>>]

\* js_config: Some(cfg)
SomeJs(cfg) ==
    [some |-> TRUE, app_id |-> cfg.app_id, douyin_ids |-> cfg.douyin_ids,
     douyin_ids_str |-> cfg.douyin_ids_str]

-----------------------------------------------------------------------------
(* scanner.rs: scan_directory.                                             *)

Contains(s, lit) == \E i \in 1..Len(s) : LitAt(s, i, lit)

\* "appId" and "douyinIds", the markers of the content sniff.
MarkerAppId == SubSeq(LitAppId, 2, Len(LitAppId))

MarkerDouyinIds == SubSeq(LitDouyinIds, 2, Len(LitDouyinIds))

\* target.exists(), read_to_string is Ok, and the content has a marker.
Accepted(file) ==
    /\ file.kind = "text"
    /\ (Contains(file.body, MarkerAppId) \/ Contains(file.body, MarkerDouyinIds))

\* Variant: the first candidate that exists is taken, whatever it holds.
FindJsPathFirstExisting(dir) ==
    IF dir.index_js.kind = "text" THEN "index_js"
    ELSE IF Accepted(dir.app_js) THEN "app_js"
    ELSE "none"

\* candidates = ["assets/main/index.js", "application.js"], first accepted.
FindJsPath(dir) ==
    IF Accepted(dir.index_js) THEN "index_js"
    ELSE IF Accepted(dir.app_js) THEN "app_js"
    ELSE "none"

\* Variant: records start unselected.
NewItemUnselected(d, dir) ==
    [path |-> d,
     config |-> load_config(dir.manifest),
     js_path |-> FindJsPath(dir),
     js_config |-> IF FindJsPath(dir) = "none" THEN NoJs
                   ELSE SomeJs(load_js_config(dir[FindJsPath(dir)].body)),
     is_modified |-> FALSE,
     selected |-> FALSE]

\* The ProjectItem pushed for the manifest of directory d.
NewItem(d, dir) ==
    LET Item(js_path) ==
            [path |-> d,
             config |-> load_config(dir.manifest),
             js_path |-> js_path,
             js_config |-> IF js_path = "none" THEN NoJs
                           ELSE SomeJs(load_js_config(dir[js_path].body)),
             is_modified |-> FALSE,
             selected |-> TRUE]
    IN  Item(FindJsPath(dir))

\* entry.file_name() == CONFIG_FILENAME for an entry the walk yields, and
\* load_config(&path) is Ok.
Found(dir) ==
    /\ dir.manifest.kind # "none"
    /\ dir.depth <= MaxDepth
    /\ ConfigParses(dir.manifest)

\* Variant: the walk ends at the first manifest that does not load.
RECURSIVE ScanFromUntilFailure(_, _)
ScanFromUntilFailure(tree, d) ==
    IF d > Len(tree) \/ ~Found(tree[d]) THEN <<>>
    ELSE <<NewItem(d, tree[d])>> \o ScanFromUntilFailure(tree, d + 1)

RECURSIVE ScanFrom(_, _)
ScanFrom(tree, d) ==
    IF d > Len(tree) THEN <<>>
    ELSE (IF Found(tree[d]) THEN <<NewItem(d, tree[d])>> ELSE <<>>)
         \o ScanFrom(tree, d + 1)

scan_directory(tree) == ScanFrom(tree, 1)

-----------------------------------------------------------------------------
(* scanner.rs: save_js_config and save_project_item.  Each returns the     *)
(* directory after the call, whether it was Ok, and the calls it made.     *)

Call(op, d, file, ok) == [op |-> op, dir |-> d, file |-> file, ok |-> ok]

\* Variant: a write that fails has already truncated the script.
save_js_config_truncating(dir, d, js_path, js_config, outcome) ==
    IF outcome = "script_read" \/ dir[js_path].kind # "text"
    THEN [dir |-> dir, ok |-> FALSE,
          log |-> <<Call("read", d, js_path, FALSE)>>]
    ELSE IF outcome = "script_write"
    THEN [dir |-> [dir EXCEPT ![js_path] = TextFile(<<>>)], ok |-> FALSE,
          log |-> <<Call("read", d, js_path, TRUE),
                    Call("write", d, js_path, FALSE)>>]
    ELSE [dir |-> [dir EXCEPT
                      ![js_path] = TextFile(JsReplace(dir[js_path].body,
                                                      js_config))],
          ok |-> TRUE,
          log |-> <<Call("read", d, js_path, TRUE),
                    Call("write", d, js_path, TRUE)>>]

save_js_config(dir, d, js_path, js_config, outcome) ==
    IF outcome = "script_read" \/ dir[js_path].kind # "text"
    THEN [dir |-> dir, ok |-> FALSE,
          log |-> <<Call("read", d, js_path, FALSE)>>]
    ELSE IF outcome = "script_write"
    THEN [dir |-> dir, ok |-> FALSE,
          log |-> <<Call("read", d, js_path, TRUE),
                    Call("write", d, js_path, FALSE)>>]
    ELSE [dir |-> [dir EXCEPT
                      ![js_path] = TextFile(JsReplace(dir[js_path].body,
                                                      js_config))],
          ok |-> TRUE,
          log |-> <<Call("read", d, js_path, TRUE),
                    Call("write", d, js_path, TRUE)>>]

\* Variant: the script is saved before the manifest is written.
save_project_item_script_first(dir, item, outcome) ==
    LET Manifest(r) ==
            IF ~r.ok THEN r
            ELSE IF outcome = "manifest_write"
            THEN [dir |-> r.dir, ok |-> FALSE,
                  log |-> r.log
                          \o <<Call("write", item.path, "manifest", FALSE)>>]
            ELSE [dir |-> [r.dir EXCEPT !.manifest = ToJson(item.config)],
                  ok |-> TRUE,
                  log |-> r.log
                          \o <<Call("write", item.path, "manifest", TRUE)>>]
    IN  Manifest(IF item.js_path # "none" /\ item.js_config.some
                 THEN save_js_config(dir, item.path, item.js_path,
                                     item.js_config, outcome)
                 ELSE [dir |-> dir, ok |-> TRUE, log |-> <<>>])

save_project_item(dir, item, outcome) ==
    IF outcome = "manifest_write"
    THEN [dir |-> dir, ok |-> FALSE,
          log |-> <<Call("write", item.path, "manifest", FALSE)>>]
    ELSE LET Script(written, w) ==
                 IF item.js_path # "none" /\ item.js_config.some
                 THEN [save_js_config(written, item.path, item.js_path,
                                      item.js_config, outcome)
                          EXCEPT !.log = <<w>> \o @]
                 ELSE [dir |-> written, ok |-> TRUE, log |-> <<w>>]
         IN  Script([dir EXCEPT !.manifest = ToJson(item.config)],
                    Call("write", item.path, "manifest", TRUE))

-----------------------------------------------------------------------------
(* app.rs: save_all and the three batch edits, as functions of the list.   *)

\* Variant: every record is saved, dirty or not.
SaveOneIgnoresDirty(acc, i, out) ==
    LET Count(item, r) ==
            [projects |-> IF r.ok
                          THEN [acc.projects EXCEPT ![i].is_modified = FALSE]
                          ELSE acc.projects,
             disk |-> [acc.disk EXCEPT ![item.path] = r.dir],
             success |-> acc.success + (IF r.ok THEN 1 ELSE 0),
             fail |-> acc.fail + (IF r.ok THEN 0 ELSE 1),
             log |-> acc.log \o r.log]
        Save(item) ==
            Count(item, save_project_item(acc.disk[item.path], item, out[i]))
    IN  Save(acc.projects[i])

\* Variant: the dirty flag is cleared whether or not the save succeeded.
SaveOneClearsAlways(acc, i, out) ==
    LET Count(item, r) ==
            [projects |-> [acc.projects EXCEPT ![i].is_modified = FALSE],
             disk |-> [acc.disk EXCEPT ![item.path] = r.dir],
             success |-> acc.success + (IF r.ok THEN 1 ELSE 0),
             fail |-> acc.fail + (IF r.ok THEN 0 ELSE 1),
             log |-> acc.log \o r.log]
        Save(item) ==
            IF ~item.is_modified THEN acc
            ELSE Count(item,
                       save_project_item(acc.disk[item.path], item, out[i]))
    IN  Save(acc.projects[i])

\* One turn of save_all's loop, on record i; out[i] is how the file system
\* answers.  acc carries the list, the tree, the two counters and the calls.
SaveOne(acc, i, out) ==
    LET \* match scanner::save_project_item(item): Ok(_) and Err(_)
        Count(item, r) ==
            IF r.ok
            THEN [projects |-> [acc.projects EXCEPT ![i].is_modified = FALSE],
                  disk |-> [acc.disk EXCEPT ![item.path] = r.dir],
                  success |-> acc.success + 1,
                  fail |-> acc.fail,
                  log |-> acc.log \o r.log]
            ELSE [projects |-> acc.projects,
                  disk |-> [acc.disk EXCEPT ![item.path] = r.dir],
                  success |-> acc.success,
                  fail |-> acc.fail + 1,
                  log |-> acc.log \o r.log]
        \* if item.is_modified { .. }
        Save(item) ==
            IF ~item.is_modified THEN acc
            ELSE Count(item,
                       save_project_item(acc.disk[item.path], item, out[i]))
    IN  Save(acc.projects[i])

\* Variant: the loop stops at the first record whose save fails.
RECURSIVE SaveFromAbort(_, _, _)
SaveFromAbort(acc, i, out) ==
    IF i > Len(acc.projects) \/ acc.fail > 0 THEN acc
    ELSE SaveFromAbort(SaveOne(acc, i, out), i + 1, out)

RECURSIVE SaveFrom(_, _, _)
SaveFrom(acc, i, out) ==
    IF i > Len(acc.projects) THEN acc
    ELSE SaveFrom(SaveOne(acc, i, out), i + 1, out)

save_all(projs, tree, out) ==
    SaveFrom([projects |-> projs, disk |-> tree, success |-> 0, fail |-> 0,
              log |-> <<>>], 1, out)

\* Variant: the identifier is not mirrored into the script field set.
SetAppidManifestOnly(item, text) ==
    IF item.selected
    THEN [item EXCEPT !.config.appid = text, !.is_modified = TRUE]
    ELSE item

\* The body of apply_batch_appid's loop.
SetAppid(item, text) ==
    IF item.selected
    THEN [item EXCEPT !.config.appid = text,
                      !.js_config.app_id = IF item.js_config.some
                                           THEN text ELSE @,
                      !.is_modified = TRUE]
    ELSE item

\* Variant: the guard tests is_empty() without trim().
apply_batch_appid_untrimmed(projs, text) ==
    IF text = <<>> THEN projs
    ELSE [i \in DOMAIN projs |-> SetAppid(projs[i], text)]

apply_batch_appid(projs, text) ==
    IF IsBlank(text) THEN projs
    ELSE [i \in DOMAIN projs |-> SetAppid(projs[i], text)]

\* Variant: the name is set on every record, selected or not.
SetNameOnAll(item, text) ==
    [item EXCEPT !.config.projectname = text, !.is_modified = TRUE]

\* The body of apply_batch_name's loop.
SetName(item, text) ==
    IF item.selected
    THEN [item EXCEPT !.config.projectname = text, !.is_modified = TRUE]
    ELSE item

apply_batch_name(projs, text) ==
    IF IsBlank(text) THEN projs
    ELSE [i \in DOMAIN projs |-> SetName(projs[i], text)]

\* Variant: the string is set but the record is not marked modified.
SetDouyinIdsUnmarked(item, cleaned_ids) ==
    IF item.selected /\ item.js_config.some
    THEN [item EXCEPT !.js_config.douyin_ids_str = cleaned_ids]
    ELSE item

\* The body of apply_batch_douyin_ids's loop.
SetDouyinIds(item, cleaned_ids) ==
    IF item.selected /\ item.js_config.some
    THEN [item EXCEPT !.js_config.douyin_ids_str = cleaned_ids,
                      !.is_modified = TRUE]
    ELSE item

apply_batch_douyin_ids(projs, text) ==
    IF IsBlank(text) THEN projs
    ELSE [i \in DOMAIN projs |->
              SetDouyinIds(projs[i], RemoveWhitespace(text))]

-----------------------------------------------------------------------------
(* Handlers.                                                               *)

Msg(kind, a, b) == [kind |-> kind, a |-> a, b |-> b]

\* AppConfig::new(): every field the empty string.
NoConfig ==
    [appid |-> <<>>, app_id |-> <<>>, douyin_ids |-> <<>>, appname |-> <<>>]

\* BytegameConfigEditor::new.  project_dir is 0 for the empty path, walk is
\* the order in which WalkDir lists the scripts of project_dir.
IdleEditor ==
    [project_dir |-> 0, walk |-> <<>>, config |-> NoConfig,
     new_config |-> NoConfig, status_message |-> Msg("select", 0, 0),
     is_modifying |-> FALSE, show_success |-> FALSE,
     modified_files |-> <<>>]

Op(name, text, index, out) ==
    [op |-> name, text |-> text, index |-> index, out |-> out]

Snapshot ==
    [projects |-> projects, disk |-> disk, log |-> fsLog, editor |-> editor]

Step(name, text, index, out) ==
    /\ ops < MaxOps
    /\ ops' = ops + 1
    /\ lastOp' = Op(name, text, index, out)
    /\ pre' = Snapshot
    /\ editor' = editor

Init ==
    /\ disk \in InitialDisks
    /\ root_path = "none"
    /\ projects = <<>>
    /\ batch_appid = <<>>
    /\ batch_projectname = <<>>
    /\ batch_douyin_ids = <<>>
    /\ status_msg = Msg("ready", 0, 0)
    /\ ops = 0
    /\ lastOp = Op("new", <<>>, 0, <<>>)
    /\ fsLog = <<>>
    /\ editor = IdleEditor
    /\ pre = Snapshot

\* "select root" button: clear_data, root_path = Some(path), scan.
SelectFolder ==
    /\ Step("select_folder", <<>>, 0, <<>>)
    /\ root_path' = "root"
    /\ projects' = scan_directory(disk)
    /\ batch_appid' = <<>>
    /\ batch_projectname' = <<>>
    /\ batch_douyin_ids' = <<>>
    /\ status_msg' = Msg("scanned", Len(projects'), 0)
    /\ fsLog' = <<>>
    /\ UNCHANGED disk

\* Variant: a refresh keeps the records that have unsaved edits.
RefreshKeepingDirty ==
    /\ root_path # "none"
    /\ Step("refresh", <<>>, 0, <<>>)
    /\ projects' = [i \in DOMAIN scan_directory(disk) |->
                       IF i \in DOMAIN projects /\ projects[i].is_modified
                       THEN projects[i]
                       ELSE scan_directory(disk)[i]]
    /\ status_msg' = Msg("scanned", Len(projects'), 0)
    /\ fsLog' = <<>>
    /\ UNCHANGED <<disk, root_path, batch_appid, batch_projectname,
                   batch_douyin_ids>>

\* "refresh" button: scan.
Refresh ==
    /\ root_path # "none"
    /\ Step("refresh", <<>>, 0, <<>>)
    /\ projects' = scan_directory(disk)
    /\ status_msg' = Msg("scanned", Len(projects'), 0)
    /\ fsLog' = <<>>
    /\ UNCHANGED <<disk, root_path, batch_appid, batch_projectname,
                   batch_douyin_ids>>

\* The outcomes the file system can give record i's save.
OutcomesOf(item) ==
    IF ~item.is_modified THEN {"ok"}
    ELSE IF item.js_path # "none" /\ item.js_config.some THEN Outcomes
    ELSE {"ok", "manifest_write"}

\* "save all" button.
SaveAll ==
    /\ projects # <<>>
    /\ \E out \in [DOMAIN projects -> Outcomes] :
          /\ \A i \in DOMAIN projects : out[i] \in OutcomesOf(projects[i])
          /\ Step("save_all", <<>>, 0, out)
          /\ LET Result(r) ==
                     /\ projects' = r.projects
                     /\ disk' = r.disk
                     /\ status_msg' = Msg("saved", r.success, r.fail)
                     /\ fsLog' = r.log
             IN  Result(save_all(projects, disk, out))
    /\ UNCHANGED <<root_path, batch_appid, batch_projectname,
                   batch_douyin_ids>>

\* The batch AppID box is filled in and its "apply" button clicked.
ApplyBatchAppid ==
    /\ projects # <<>>
    /\ \E text \in BatchTexts :
          /\ Step("apply_batch_appid", text, 0, <<>>)
          /\ batch_appid' = text
          /\ projects' = apply_batch_appid(projects, text)
          /\ status_msg' = IF IsBlank(text) THEN status_msg
                           ELSE Msg("batch_appid", 0, 0)
    /\ fsLog' = <<>>
    /\ UNCHANGED <<disk, root_path, batch_projectname, batch_douyin_ids>>

\* The batch project-name box is filled in and its "apply" button clicked.
ApplyBatchName ==
    /\ projects # <<>>
    /\ \E text \in BatchTexts :
          /\ Step("apply_batch_name", text, 0, <<>>)
          /\ batch_projectname' = text
          /\ projects' = apply_batch_name(projects, text)
          /\ status_msg' = IF IsBlank(text) THEN status_msg
                           ELSE Msg("batch_name", 0, 0)
    /\ fsLog' = <<>>
    /\ UNCHANGED <<disk, root_path, batch_appid, batch_douyin_ids>>

\* The batch DouyinIDs box is filled in and its "apply" button clicked.
ApplyBatchDouyinIds ==
    /\ projects # <<>>
    /\ \E text \in BatchIdTexts :
          /\ Step("apply_batch_douyin_ids", text, 0, <<>>)
          /\ batch_douyin_ids' = IF IsBlank(text) THEN text
                                 ELSE RemoveWhitespace(text)
          /\ projects' = apply_batch_douyin_ids(projects, text)
          /\ status_msg' = IF IsBlank(text) THEN status_msg
                           ELSE Msg("batch_douyin_ids", 0, 0)
    /\ fsLog' = <<>>
    /\ UNCHANGED <<disk, root_path, batch_appid, batch_projectname>>

UiFrame ==
    /\ fsLog' = <<>>
    /\ UNCHANGED <<disk, root_path, batch_appid, batch_projectname,
                   batch_douyin_ids, status_msg>>

\* Variant: clicking a record's checkbox takes its unsaved mark away.
ToggleSelectedClearingDirty ==
    /\ \E i \in DOMAIN projects :
          /\ Step("toggle_selected", <<>>, i, <<>>)
          /\ projects' = [projects EXCEPT ![i].selected = ~@,
                                          ![i].is_modified = FALSE]
    /\ UiFrame

\* A record's checkbox is clicked.
ToggleSelected ==
    /\ \E i \in DOMAIN projects :
          /\ Step("toggle_selected", <<>>, i, <<>>)
          /\ projects' = [projects EXCEPT ![i].selected = ~@]
    /\ UiFrame

\* A record's AppID box is edited (changed() is true).
EditAppid ==
    /\ \E i \in DOMAIN projects, text \in DirectTexts :
          /\ text # projects[i].config.appid
          /\ Step("edit_appid", text, i, <<>>)
          /\ projects' = [projects EXCEPT ![i].config.appid = text,
                                          ![i].is_modified = TRUE]
    /\ UiFrame

\* A record's Name box is edited.
EditName ==
    /\ \E i \in DOMAIN projects, text \in DirectTexts :
          /\ text # projects[i].config.projectname
          /\ Step("edit_name", text, i, <<>>)
          /\ projects' = [projects EXCEPT ![i].config.projectname = text,
                                          ![i].is_modified = TRUE]
    /\ UiFrame

\* A record's JS AppID box is edited.
EditJsAppId ==
    /\ \E i \in DOMAIN projects, text \in DirectJsTexts :
          /\ projects[i].js_config.some
          /\ text # projects[i].js_config.app_id
          /\ Step("edit_js_app_id", text, i, <<>>)
          /\ projects' = [projects EXCEPT ![i].js_config.app_id = text,
                                          ![i].is_modified = TRUE]
    /\ UiFrame

\* A record's Douyin IDs box is edited; whitespace is removed at once.
EditDouyinIdsStr ==
    /\ \E i \in DOMAIN projects, text \in DirectIdTexts :
          /\ projects[i].js_config.some
          /\ text # projects[i].js_config.douyin_ids_str
          /\ Step("edit_douyin_ids_str", text, i, <<>>)
          /\ projects' =
                 [projects EXCEPT
                     ![i].js_config.douyin_ids_str = RemoveWhitespace(text),
                     ![i].is_modified = TRUE]
    /\ UiFrame

Next ==
    \/ SelectFolder
    \/ Refresh
    \/ SaveAll
    \/ ApplyBatchAppid
    \/ ApplyBatchName
    \/ ApplyBatchDouyinIds
    \/ ToggleSelected
    \/ EditAppid
    \/ EditName
    \/ EditJsAppId
    \/ EditDouyinIdsStr

Spec == Init /\ [][Next]_vars

-----------------------------------------------------------------------------
(* Reading the history: what the last handler was and what it did.         *)

IsSaveAll == lastOp.op = "save_all"

Records == DOMAIN pre.projects

WasDirty(i) == pre.projects[i].is_modified

\* The calls of log made on the files of record i.
CallsOf(log, i) ==
    SelectSeq(log, LAMBDA c : c.dir = pre.projects[i].path)

\* Save attempts on record i: each begins with the write of its manifest.
Attempts(log, i) ==
    Len(SelectSeq(CallsOf(log, i),
                  LAMBDA c : c.op = "write" /\ c.file = "manifest"))

SaveFailed(log, i) == \E k \in 1..Len(log) :
    log[k].dir = pre.projects[i].path /\ ~log[k].ok

SaveSucceeded(log, i) == Attempts(log, i) > 0 /\ ~SaveFailed(log, i)

\* The manifest write succeeded and the script write then failed.
FailedAtScriptWrite(log, i) == \E k \in 1..Len(log) :
    /\ log[k].dir = pre.projects[i].path
    /\ log[k].file # "manifest" /\ log[k].op = "write" /\ ~log[k].ok

DirtyBefore == {i \in Records : WasDirty(i)}

-----------------------------------------------------------------------------
(* C1: save_all attempts every record that was dirty exactly once whatever *)
(* failed before it, and reports as successCount the dirty records whose   *)
(* save succeeded and as failureCount those whose save failed; the two add *)
(* up to the number of records that were dirty when it started.            *)
C1_SaveAllCountsEveryDirtyRecord ==
    IsSaveAll =>
        /\ \A i \in DirtyBefore : Attempts(fsLog, i) = 1
        /\ status_msg.kind = "saved"
        /\ status_msg.a =
               Cardinality({i \in DirtyBefore : SaveSucceeded(fsLog, i)})
        /\ status_msg.b =
               Cardinality({i \in DirtyBefore : SaveFailed(fsLog, i)})
        /\ status_msg.a + status_msg.b = Cardinality(DirtyBefore)

\* A save_all in which an earlier record failed and a later one succeeded.
C1_Witness ==
    /\ IsSaveAll
    /\ \E i, j \in DirtyBefore :
          i < j /\ SaveFailed(fsLog, i) /\ SaveSucceeded(fsLog, j)

(* C2: after save_all a record is clean exactly when it was clean before   *)
(* or its save succeeded; a record whose save failed is still dirty; no    *)
(* other field of any record changed.                                      *)
C2_DirtyClearedOnlyOnSuccess ==
    IsSaveAll =>
        /\ DOMAIN projects = Records
        /\ \A i \in Records :
              /\ ~projects[i].is_modified <=>
                     (~WasDirty(i) \/ SaveSucceeded(fsLog, i))
              /\ SaveFailed(fsLog, i) => projects[i].is_modified
              /\ [projects[i] EXCEPT !.is_modified = FALSE] =
                     [pre.projects[i] EXCEPT !.is_modified = FALSE]

\* A save_all over a record whose save failed and a record that was clean.
C2_Witness ==
    /\ IsSaveAll
    /\ \E i, j \in Records : SaveFailed(fsLog, i) /\ ~WasDirty(j)

(* C3: a record's save writes the manifest before it touches the script,   *)
(* and when the script write fails after the manifest write succeeded the  *)
(* manifest on disk holds the record's edited values, the save counts as a *)
(* failure and the record stays dirty.                                     *)
C3_ManifestPersistedBeforeScriptFails ==
    IsSaveAll =>
        /\ \A k \in 1..Len(fsLog) :
              fsLog[k].file # "manifest" =>
                  \E j \in 1..(k - 1) :
                      /\ fsLog[j].dir = fsLog[k].dir
                      /\ fsLog[j] = Call("write", fsLog[k].dir, "manifest", TRUE)
        /\ \A i \in Records :
              FailedAtScriptWrite(fsLog, i) =>
                  LET dir == disk[projects[i].path]
                  IN  /\ ConfigParses(dir.manifest)
                      /\ load_config(dir.manifest) = projects[i].config
                      /\ dir[projects[i].js_path] =
                             pre.disk[projects[i].path][projects[i].js_path]
                      /\ projects[i].is_modified
                      /\ status_msg.b >= 1

\* A save_all in which a record's script write failed after an edit that
\* the manifest on disk did not hold before.
C3_Witness ==
    /\ IsSaveAll
    /\ \E i \in Records :
          /\ FailedAtScriptWrite(fsLog, i)
          /\ load_config(pre.disk[projects[i].path].manifest)
                 # projects[i].config

C5_CleanRecordsUntouched ==
    IsSaveAll =>
        /\ \A i \in Records :
              ~WasDirty(i) =>
                  /\ CallsOf(fsLog, i) = <<>>
                  /\ disk[pre.projects[i].path] = pre.disk[pre.projects[i].path]
        /\ status_msg.a + status_msg.b =
               Cardinality({i \in Records : CallsOf(fsLog, i) # <<>>})

\* A save_all over a clean record with a script and a dirty record.
C5_Witness ==
    /\ IsSaveAll
    /\ \E i, j \in Records :
          /\ ~WasDirty(i) /\ pre.projects[i].js_config.some
          /\ WasDirty(j) /\ SaveSucceeded(fsLog, j)

-----------------------------------------------------------------------------
(* Reading the history of a batch edit.                                    *)

BatchOps == {"apply_batch_appid", "apply_batch_name", "apply_batch_douyin_ids"}

IsBatch == lastOp.op \in BatchOps

\* The record with its dirty flag put back to what it was.
SameButDirty(i) ==
    [projects[i] EXCEPT !.is_modified = pre.projects[i].is_modified]

(* C6: a batch edit whose value is empty or all whitespace changes no      *)
(* record: dirty flag, selected flag, manifest fields and script fields    *)
(* are what they were, for each of the three batch operations.             *)
C6_BlankBatchValueIsNoOp ==
    (IsBatch /\ IsBlank(lastOp.text)) =>
        /\ projects = pre.projects
        /\ disk = pre.disk

\* A batch AppID edit with a value of whitespace, over a selected record.
C6_Witness ==
    /\ lastOp.op = "apply_batch_appid"
    /\ lastOp.text # <<>> /\ IsBlank(lastOp.text)
    /\ \E i \in Records : pre.projects[i].selected

(* C7, as claimed: after a batch edit of any of the three fields with a    *)
(* value that is not all whitespace, every selected record is dirty, also  *)
(* a selected record that has no companion script.                         *)
C7_EverySelectedRecordDirty ==
    (IsBatch /\ ~IsBlank(lastOp.text)) =>
        \A i \in Records : projects[i].selected => projects[i].is_modified

(* C7, amended: a batch edit of the identifier or the display name with a  *)
(* value that is not all whitespace marks every selected record dirty,     *)
(* with or without a companion script; a batch edit of the platform-ID     *)
(* list marks every selected record that has a script field set dirty and *)
(* leaves a selected record without one exactly as it was.                 *)
C7_SelectedRecordsDirtyWhereFieldExists ==
    (IsBatch /\ ~IsBlank(lastOp.text)) =>
        \A i \in Records :
            projects[i].selected =>
                IF lastOp.op = "apply_batch_douyin_ids"
                   /\ ~projects[i].js_config.some
                THEN projects[i] = pre.projects[i]
                ELSE projects[i].is_modified

\* A batch platform-ID edit over a clean selected record with a script and
\* a clean selected record without one.
C7_Witness ==
    /\ lastOp.op = "apply_batch_douyin_ids"
    /\ ~IsBlank(lastOp.text)
    /\ \E i, j \in Records :
          /\ pre.projects[i].selected /\ pre.projects[i].js_config.some
          /\ ~pre.projects[i].is_modified
          /\ pre.projects[j].selected /\ ~pre.projects[j].js_config.some
          /\ ~pre.projects[j].is_modified

(* C8: a batch edit leaves every record that is not selected exactly as it *)
(* was (manifest fields, script fields, dirty flag) and changes no         *)
(* record's selected flag.                                                 *)
C8_UnselectedRecordsUnchanged ==
    IsBatch =>
        /\ DOMAIN projects = Records
        /\ \A i \in Records :
              /\ projects[i].selected = pre.projects[i].selected
              /\ ~pre.projects[i].selected => projects[i] = pre.projects[i]

\* A batch edit that changed a selected record beside an unselected one.
C8_Witness ==
    /\ IsBatch
    /\ \E i, j \in Records :
          /\ ~pre.projects[i].selected
          /\ pre.projects[j].selected /\ projects[j] # pre.projects[j]

(* C9: a batch identifier edit with value v sets the manifest identifier   *)
(* of every selected record to v and its script identifier too when it has *)
(* a script field set; a batch display-name edit changes no field but the  *)
(* manifest display name; a batch platform-ID edit changes no field but    *)
(* the script's editable ID string, which becomes the value with its       *)
(* whitespace removed.                                                     *)
C9_BatchEditSetsTheTargetField ==
    (IsBatch /\ ~IsBlank(lastOp.text)) =>
        \A i \in Records :
            LET old == pre.projects[i]
                new == projects[i]
            IN  CASE lastOp.op = "apply_batch_appid" ->
                       /\ new.selected =>
                              /\ new.config.appid = lastOp.text
                              /\ new.js_config.some =>
                                     new.js_config.app_id = lastOp.text
                              /\ ~new.js_config.some => new.js_config = NoJs
                       /\ SameButDirty(i) =
                              [old EXCEPT
                                  !.config.appid = new.config.appid,
                                  !.js_config.app_id = new.js_config.app_id]
                  [] lastOp.op = "apply_batch_name" ->
                       /\ new.selected =>
                              new.config.projectname = lastOp.text
                       /\ SameButDirty(i) =
                              [old EXCEPT !.config.projectname =
                                              new.config.projectname]
                  [] lastOp.op = "apply_batch_douyin_ids" ->
                       /\ (new.selected /\ new.js_config.some) =>
                              new.js_config.douyin_ids_str =
                                  RemoveWhitespace(lastOp.text)
                       /\ new.config = old.config
                       /\ new.js_config.app_id = old.js_config.app_id
                       /\ SameButDirty(i) =
                              [old EXCEPT !.js_config.douyin_ids_str =
                                              new.js_config.douyin_ids_str]

\* A batch identifier edit over a selected record with a script whose two
\* identifiers differed before, and a selected record without a script.
C9_Witness ==
    /\ lastOp.op = "apply_batch_appid"
    /\ ~IsBlank(lastOp.text)
    /\ \E i, j \in Records :
          /\ pre.projects[i].selected /\ pre.projects[i].js_config.some
          /\ pre.projects[i].js_config.app_id # pre.projects[i].config.appid
          /\ pre.projects[j].selected /\ ~pre.projects[j].js_config.some

(* C10, as claimed: once a record has been written to disk, the platform   *)
(* IDs list of its script field set equals its editable string split on    *)
(* commas, trimmed, empty pieces dropped.                                  *)
C10_ListMatchesStringAfterSave ==
    IsSaveAll =>
        \A i \in Records :
            (projects[i].js_config.some /\ WasDirty(i)
                 /\ SaveSucceeded(fsLog, i)) =>
                projects[i].js_config.douyin_ids =
                    SplitIds(projects[i].js_config.douyin_ids_str)

-----------------------------------------------------------------------------
(* The manifests live on a file system that other programs write too.      *)

\* What another writer leaves as the value of a key.
ExternalValue == [t |-> "num", s |-> <<"7">>]

\* The manifest after another writer changed every key but the two fields.
Retouched(file) ==
    [file EXCEPT !.body =
        [k \in DOMAIN file.body |->
            IF file.body[k].k \in KnownKeys THEN file.body[k]
            ELSE [file.body[k] EXCEPT !.v = ExternalValue]]]

\* Another writer edits the manifest of directory d behind the tool's back.
ExternalWrite ==
    /\ \E d \in DOMAIN disk :
          /\ disk[d].manifest.kind = "json"
          /\ Retouched(disk[d].manifest) # disk[d].manifest
          /\ Step("external_write", <<>>, d, <<>>)
          /\ disk' = [disk EXCEPT ![d].manifest = Retouched(@)]
    /\ fsLog' = <<>>
    /\ UNCHANGED <<root_path, projects, batch_appid, batch_projectname,
                   batch_douyin_ids, status_msg>>

NextShared == Next \/ ExternalWrite

\* The tool on a file system it shares with other writers.
SpecShared == Init /\ [][NextShared]_vars

\* The entries of a manifest under keys other than the two fields.
OtherEntries(file) == {file.body[k] : k \in {j \in DOMAIN file.body :
                                               file.body[j].k \notin KnownKeys}}

\* The manifest of record i was written by the last save_all.
ManifestWritten(i) == \E k \in 1..Len(fsLog) :
    /\ fsLog[k].dir = pre.projects[i].path
    /\ fsLog[k].op = "write" /\ fsLog[k].file = "manifest" /\ fsLog[k].ok

-----------------------------------------------------------------------------
(* C11: a commit of a manifest works on the file as it is on disk at that  *)
(* moment: whatever another writer put under a key other than appid and    *)
(* projectname between the scan and the save is still in the file after    *)
(* the save.                                                               *)
C11_ExternalEditSurvivesCommit ==
    IsSaveAll =>
        \A i \in DirtyBefore :
            ManifestWritten(i) =>
                OtherEntries(pre.disk[pre.projects[i].path].manifest)
                    \subseteq OtherEntries(disk[pre.projects[i].path].manifest)

-----------------------------------------------------------------------------
(* C12: a manifest read, edited in appid and/or projectname, written and   *)
(* read again has under every other key the value and type the original    *)
(* had, and one more read/write cycle reproduces the written file.         *)

\* The file written for the file read, with the two fields set.
Rewritten(file, appid, projectname) ==
    ToJson([load_config(file) EXCEPT !.appid = appid,
                                     !.projectname = projectname])

\* The values the two fields may be given: the one read or a typed one.
FieldChoices(file, key) == {FieldOrDefault(file.body, key)} \cup DirectTexts

\* written keeps the other keys of file and is a fixed point of the cycle.
KeepsOtherKeys(file, written) ==
    /\ ConfigParses(written)
    /\ OtherEntries(written) = OtherEntries(file)
    /\ ToJson(load_config(written)) = written

C12_ManifestRoundTrip ==
    /\ \A d \in DOMAIN disk :
          ConfigParses(disk[d].manifest) =>
              \A a \in FieldChoices(disk[d].manifest, "appid"),
                 n \in FieldChoices(disk[d].manifest, "projectname") :
                  KeepsOtherKeys(disk[d].manifest,
                                 Rewritten(disk[d].manifest, a, n))
    /\ IsSaveAll =>
          \A i \in DirtyBefore :
              ManifestWritten(i) =>
                  OtherEntries(disk[pre.projects[i].path].manifest)
                      = OtherEntries(pre.disk[pre.projects[i].path].manifest)

\* A manifest with other keys was written with a new identifier.
C12_Witness ==
    /\ IsSaveAll
    /\ \E i \in DirtyBefore :
          /\ ManifestWritten(i)
          /\ OtherEntries(disk[pre.projects[i].path].manifest) # {}
          /\ disk[pre.projects[i].path].manifest
                 # pre.disk[pre.projects[i].path].manifest

-----------------------------------------------------------------------------
(* json_handler.rs (change_appconfig): the manifest read through the       *)
(* generic JSON tree.                                                      *)

\* json.get(key).and_then(|v| v.as_str()).unwrap_or("")
StrOrEmpty(doc, key) ==
    IF HasKey(doc, key) /\ ValueOf(doc, key).t = "str"
    THEN ValueOf(doc, key).s
    ELSE <<>>

\* serde_json::from_str::<Value> succeeds on this file.
JsonParses(file) == file.kind = "json"

\* The AppConfig read_json_config returns for a file that parses.
read_json_config(file) ==
    [appid |-> StrOrEmpty(file.body, "appid"),
     app_id |-> <<>>,
     douyin_ids |-> <<>>,
     appname |-> StrOrEmpty(file.body, "projectname")]

IsScan == lastOp.op \in {"select_folder", "refresh"}

\* The records of the list built from the manifest of directory d.
RecordsOf(d) == {i \in DOMAIN projects : projects[i].path = d}

-----------------------------------------------------------------------------
(* C13: a manifest that is valid JSON is read whatever its appid and       *)
(* projectname hold: a field that is absent or not a string reads as the   *)
(* empty string, and discovery makes a record of the manifest.             *)
C13_KnownFieldsNeverFailTheRead ==
    IsScan =>
        \A d \in DOMAIN disk :
            (JsonParses(disk[d].manifest) /\ disk[d].depth <= MaxDepth) =>
                \E i \in RecordsOf(d) :
                    /\ projects[i].config.appid
                           = read_json_config(disk[d].manifest).appid
                    /\ projects[i].config.projectname
                           = read_json_config(disk[d].manifest).appname

-----------------------------------------------------------------------------
(* C14: a scan yields exactly one record for each manifest within the      *)
(* depth limit that parses and none for any other, reports the count and   *)
(* no error, and a manifest that fails to parse takes no record away from  *)
(* the manifests after it.                                                 *)

\* The manifest of directory d is one a scan reaches and can parse.
Loadable(d) ==
    /\ disk[d].manifest.kind \notin {"none", "bad"}
    /\ disk[d].depth <= MaxDepth
    /\ ConfigParses(disk[d].manifest)

C14_ScanSkipsMalformedManifests ==
    IsScan =>
        /\ \A d \in DOMAIN disk :
              Cardinality(RecordsOf(d)) = IF Loadable(d) THEN 1 ELSE 0
        /\ \A i \in DOMAIN projects : projects[i].path \in DOMAIN disk
        /\ status_msg = Msg("scanned", Cardinality({d \in DOMAIN disk :
                                                       Loadable(d)}), 0)

\* A manifest that does not parse comes before one that got its record.
C14_Witness ==
    /\ IsScan
    /\ \E d, later \in DOMAIN disk :
          /\ d < later
          /\ disk[d].manifest.kind = "bad"
          /\ RecordsOf(later) # {}

-----------------------------------------------------------------------------
(* C15: every record a scan produces is clean and selected, so right after *)
(* a scan no record of the list is dirty.                                  *)
C15_ScannedRecordsCleanAndSelected ==
    IsScan =>
        \A i \in DOMAIN projects :
            ~projects[i].is_modified /\ projects[i].selected

\* A scan that found records, run over a list with a dirty and an
\* unselected record.
C15_Witness ==
    /\ IsScan
    /\ projects # <<>>
    /\ \E i \in DOMAIN pre.projects : pre.projects[i].is_modified
    /\ \E i \in DOMAIN pre.projects : ~pre.projects[i].selected

-----------------------------------------------------------------------------
(* C16: a scan replaces the list wholesale: every record of the new list   *)
(* is built from the files as they are on disk, nothing of the previous    *)
(* list is kept, and the edits that were not saved are dropped, not        *)
(* written.                                                                *)

\* Record i holds what the files of its directory hold.
FreshFromDisk(i) ==
    /\ projects[i] = NewItem(projects[i].path, disk[projects[i].path])
    /\ projects[i].config = load_config(disk[projects[i].path].manifest)

C16_RescanReplacesTheList ==
    IsScan =>
        /\ \A i \in DOMAIN projects : FreshFromDisk(i)
        /\ disk = pre.disk
        /\ fsLog = <<>>

\* The scan ran over a list with an unsaved edit, which is gone.
C16_Witness ==
    /\ IsScan
    /\ \E i \in DOMAIN pre.projects :
          /\ pre.projects[i].is_modified
          /\ i \in DOMAIN projects
          /\ projects[i].path = pre.projects[i].path
          /\ projects[i].config # pre.projects[i].config

-----------------------------------------------------------------------------
(* Script texts for the codec, and sessions that start on them.            *)

\* the assignments inside surrounding code:
\* d.rewardVideoAd=void 0,d.nowid=0,d.appId="appId",d.douyinIds=["id1","id2"],e._RF.pop()
ScriptEmbedded ==
    <<"d", ".", "r", "e", "w", "a", "r", "d", "V", "i", "d", "e", "o", "A",
      "d", "=", "v", "o", "i", "d", " ", "0", ",", "d", ".", "n", "o", "w",
      "i", "d", "=", "0", ",", "d", ".", "a", "p", "p", "I", "d", "=",
      "\"", "a", "p", "p", "I", "d", "\"", ",", "d", ".", "d", "o", "u",
      "y", "i", "n", "I", "d", "s", "=", "[", "\"", "i", "d", "1", "\"",
      ",", "\"", "i", "d", "2", "\"", "]", ",", "e", ".", "_", "R", "F",
      ".", "p", "o", "p", "(", ")">>

\* g.appId = 'p'; and g.douyinIds = [ 'x', "y" ]; on two lines
ScriptLoose ==
    <<"g", ".", "a", "p", "p", "I", "d", " ", "=", " ", "'", "p", "'", ";",
      "\n", "g", ".", "d", "o", "u", "y", "i", "n", "I", "d", "s", " ",
      "=", " ", "[", " ", "'", "x", "'", ",", " ", "\"", "y", "\"", " ",
      "]", ";">>

\* a.appId="o";b.appId="q";a.douyinIds=["x"];b.douyinIds=["y"]
ScriptTwice ==
    <<"a", ".", "a", "p", "p", "I", "d", "=", "\"", "o", "\"", ";", "b",
      ".", "a", "p", "p", "I", "d", "=", "\"", "q", "\"", ";", "a", ".",
      "d", "o", "u", "y", "i", "n", "I", "d", "s", "=", "[", "\"", "x",
      "\"", "]", ";", "b", ".", "d", "o", "u", "y", "i", "n", "I", "d",
      "s", "=", "[", "\"", "y", "\"", "]">>

\* c.appId="o",c.douyinIds=["'x'", ,"y"]: a quoted string holding quotes, an empty piece
ScriptNested ==
    <<"c", ".", "a", "p", "p", "I", "d", "=", "\"", "o", "\"", ",", "c",
      ".", "d", "o", "u", "y", "i", "n", "I", "d", "s", "=", "[", "\"",
      "'", "x", "'", "\"", ",", " ", ",", "\"", "y", "\"", "]">>

\* h.appId="o": no list assignment
ScriptNoList ==
    <<"h", ".", "a", "p", "p", "I", "d", "=", "\"", "o", "\"">>

\* var appId;
ScriptBare == <<"v", "a", "r", " ", "a", "p", "p", "I", "d", ";">>

\* h.appId="" : ScriptNoList after its identifier was saved as empty.
ScriptEmptied == <<"h", ".", "a", "p", "p", "I", "d", "=", "\"", "\"">>

\* The scripts a codec session finds as assets/main/index.js.
ScriptTexts ==
    {ScriptEmbedded, ScriptLoose, ScriptTwice, ScriptNested, ScriptNoList,
     ScriptMinified, ScriptSpaced, ScriptBare, ScriptEmptied}

\* A tree of one project whose script is one of the texts.
ScriptDisks ==
    {<<[manifest |-> ManifestFull, depth |-> 2,
        index_js |-> TextFile(text), app_js |-> NoFile]>> :
        text \in ScriptTexts}

InitScripts ==
    /\ disk \in ScriptDisks
    /\ root_path = "none"
    /\ projects = <<>>
    /\ batch_appid = <<>>
    /\ batch_projectname = <<>>
    /\ batch_douyin_ids = <<>>
    /\ status_msg = Msg("ready", 0, 0)
    /\ ops = 0
    /\ lastOp = Op("new", <<>>, 0, <<>>)
    /\ fsLog = <<>>
    /\ editor = IdleEditor
    /\ pre = Snapshot

\* The tool run on one project, over every script text.
SpecScripts == InitScripts /\ [][Next]_vars

-----------------------------------------------------------------------------
(* C17: extraction gives the value of the first identifier assignment      *)
(* <prefix>.appId = "v" or 'v' and the elements, in order, of the first    *)
(* list assignment <prefix>.douyinIds = [ ... ]; the assignments           *)
(* d.appId="appId",d.douyinIds=["id1","id2"] inside other code give the    *)
(* identifier appId and the list [id1, id2].                               *)

\* Optional whitespace around '=' in the script texts.
Spacings == {<<>>, <<" ">>}

Quotes == {"\"", "'"}

\* Where lit first occurs in s.
FirstOccurrence(s, lit) == Min({i \in 1..Len(s) : LitAt(s, i, lit)})

\* s holds at i the text  .appId = "v"  (or with single quotes), v being
\* one character or more; .appId = ""  is not an assignment of this form.
AssignsValueAt(s, i, v) ==
    /\ v # <<>>
    /\ \A k \in 1..Len(v) : v[k] \notin Quotes
    /\ \E w1 \in Spacings, w2 \in Spacings, q1 \in Quotes, q2 \in Quotes :
          LitAt(s, i, LitAppId \o w1 \o <<"=">> \o w2
                      \o <<q1>> \o v \o <<q2>>)

\* The elements written between the brackets: the interior without its
\* whitespace and quotes, cut at the commas, empty pieces aside.
Elements(interior) ==
    NonEmpty(SplitComma(SelectSeq(interior,
                                  LAMBDA c : ~IsWs(c) /\ c \notin Quotes)))

\* s holds at i the text  .douyinIds = [ interior ]  and ids are the
\* elements of interior.
AssignsListAt(s, i, ids) ==
    \E w1 \in Spacings, w2 \in Spacings, close \in 1..Len(s) :
        /\ LitAt(s, i, LitDouyinIds \o w1 \o <<"=">> \o w2 \o <<"[">>)
        /\ close >= i + Len(LitDouyinIds) + Len(w1) + Len(w2) + 2
        /\ s[close] = "]"
        /\ \A k \in (i + Len(LitDouyinIds))..(close - 1) : s[k] # "]"
        /\ ids = Elements(SubSeq(s, i + Len(LitDouyinIds) + Len(w1)
                                      + Len(w2) + 2, close - 1))

\* The positions of s that hold an identifier assignment.
ValueAssignments(s) ==
    {i \in 1..Len(s) :
        /\ LitAt(s, i, LitAppId)
        /\ \E a \in (i + Len(LitAppId))..Len(s), b \in 1..Len(s) :
              a <= b /\ AssignsValueAt(s, i, SubSeq(s, a, b))}

\* cfg is what the first assignments of content say.
ExtractsFirstAssignments(content, cfg) ==
    /\ IF ValueAssignments(content) # {}
       THEN AssignsValueAt(content, Min(ValueAssignments(content)),
                           cfg.app_id)
       ELSE cfg.app_id = <<>>
    /\ IF Contains(content, LitDouyinIds)
       THEN AssignsListAt(content, FirstOccurrence(content, LitDouyinIds),
                          cfg.douyin_ids)
       ELSE cfg.douyin_ids = <<>>

\* The script of record i as it is on disk.
ScriptOf(tree, i) == tree[projects[i].path][projects[i].js_path].body

C17_ExtractionReadsFirstAssignments ==
    IsScan =>
        \A i \in DOMAIN projects :
            projects[i].js_path # "none" =>
                /\ projects[i].js_config.some
                /\ ExtractsFirstAssignments(ScriptOf(disk, i),
                                            projects[i].js_config)
                /\ ScriptOf(disk, i) = ScriptEmbedded =>
                      /\ projects[i].js_config.app_id
                             = <<"a", "p", "p", "I", "d">>
                      /\ projects[i].js_config.douyin_ids
                             = << <<"i", "d", "1">>, <<"i", "d", "2">> >>

\* A script with two assignments of each kind was scanned.
C17_Witness ==
    /\ IsScan
    /\ \E i \in DOMAIN projects :
          /\ projects[i].js_path # "none"
          /\ ScriptOf(disk, i) = ScriptTwice
          /\ projects[i].js_config.app_id = <<"o">>
          /\ projects[i].js_config.douyin_ids = << <<"x">> >>

-----------------------------------------------------------------------------
(* C18: the extracted list is the bracket interior cut at the commas, each *)
(* piece trimmed of whitespace and freed of its quotes, the pieces that    *)
(* are then empty left out, in the original order.                         *)

\* The bracket interior of the first list assignment of record i's script.
ListInterior(i) ==
    Captured(ScriptOf(disk, i), FirstDouyinIdsMatch(ScriptOf(disk, i)))

\* piece without one pair of enclosing quotes, if it has one.
WithoutOneLayer(piece) ==
    IF /\ Len(piece) >= 2
       /\ piece[1] \in Quotes
       /\ piece[Len(piece)] = piece[1]
    THEN SubSeq(piece, 2, Len(piece) - 1)
    ELSE piece

\* id is piece without the quote characters it begins and ends with.
WithoutOuterQuotes(piece, id) ==
    \E a \in 1..(Len(piece) + 1), b \in 0..Len(piece) :
        /\ id = SubSeq(piece, a, b)
        /\ \A k \in 1..(a - 1) : piece[k] \in Quotes
        /\ \A k \in (b + 1)..Len(piece) : piece[k] \in Quotes
        /\ id # <<>> => (id[1] \notin Quotes /\ id[Len(id)] \notin Quotes)

\* The trimmed pieces of the interior that are more than quotes.
Kept(interior) ==
    SelectSeq(TrimEach(SplitComma(interior)),
              LAMBDA piece : \E k \in 1..Len(piece) : piece[k] \notin Quotes)

\* The claim as stated: exactly one layer of quotes is removed.
C18_ListStripsOneQuoteLayer ==
    IsScan =>
        \A i \in DOMAIN projects :
            projects[i].js_path # "none" =>
                projects[i].js_config.douyin_ids
                    = NonEmpty([k \in DOMAIN TrimEach(SplitComma(ListInterior(i)))
                                   |-> WithoutOneLayer(
                                           TrimEach(SplitComma(ListInterior(i)))[k])])

\* As amended: every leading and trailing quote character is removed.
C18_ListStripsOuterQuotes ==
    IsScan =>
        \A i \in DOMAIN projects :
            projects[i].js_path # "none" =>
                /\ Len(projects[i].js_config.douyin_ids)
                       = Len(Kept(ListInterior(i)))
                /\ \A k \in DOMAIN projects[i].js_config.douyin_ids :
                      /\ projects[i].js_config.douyin_ids[k] # <<>>
                      /\ WithoutOuterQuotes(
                             Kept(ListInterior(i))[k],
                             projects[i].js_config.douyin_ids[k])

\* A list with a string that holds quotes and with an empty piece was read.
C18_Witness ==
    /\ IsScan
    /\ \E i \in DOMAIN projects :
          /\ projects[i].js_path # "none"
          /\ ScriptOf(disk, i) = ScriptNested
          /\ projects[i].js_config.douyin_ids = << <<"x">>, <<"y">> >>

-----------------------------------------------------------------------------
(* js_handler.rs (change_appconfig): the script read and rewritten.        *)

\* "appId" and "douyinIds": the patterns of js_handler have no leading dot.
BareAppId == MarkerAppId

BareDouyinIds == MarkerDouyinIds

\* The first index from i on that holds ']', or Len(s) + 1.
NextClose(s, i) ==
    Min({j \in i..(Len(s) + 1) : j = Len(s) + 1 \/ s[j] = "]"})

\* appId\s*=\s*["']([^"']*)["'] at i.  A match is [start, from, to, end):
\* the whole match is [start, end), capture group 1 is [from, to).
NoBareMatch == [start |-> 0, from |-> 0, to |-> 0, end |-> 0]

BareAppIdMatchAt(s, i) ==
    LET Value(q, e) == IF e <= Len(s)
                       THEN [start |-> i, from |-> q + 1, to |-> e,
                             end |-> e + 1]
                       ELSE NoBareMatch
        Opening(q) == IF q = 0 \/ q > Len(s) \/ ~IsQuote(s[q])
                      THEN NoBareMatch
                      ELSE Value(q, NextQuote(s, q + 1))
    IN  Opening(AssignAt(s, i, BareAppId))

\* douyinIds\s*=\s*\[([^\]]*)\] at i.
BareDouyinIdsMatchAt(s, i) ==
    LET Interior(q, e) == IF e <= Len(s)
                          THEN [start |-> i, from |-> q + 1, to |-> e,
                                end |-> e + 1]
                          ELSE NoBareMatch
        Opening(q) == IF q = 0 \/ q > Len(s) \/ s[q] # "[" THEN NoBareMatch
                      ELSE Interior(q, NextClose(s, q + 1))
    IN  Opening(AssignAt(s, i, BareDouyinIds))

\* The leftmost of the matches found at the positions of a text.
LeftmostBare(found) ==
    IF found \subseteq {NoBareMatch} THEN NoBareMatch
    ELSE CHOOSE m \in found \ {NoBareMatch} :
             \A n \in found \ {NoBareMatch} : m.start <= n.start

\* re.captures(content)?.get(1): None is told from Some("") by found.
extract_app_id(content) ==
    LET Group(m) == IF m = NoBareMatch THEN [found |-> FALSE, text |-> <<>>]
                    ELSE [found |-> TRUE,
                          text |-> SubSeq(content, m.from, m.to - 1)]
    IN  Group(LeftmostBare({BareAppIdMatchAt(content, i) :
                               i \in 1..Len(content)}))

extract_douyin_ids(content) ==
    LET Group(m) == IF m = NoBareMatch THEN [found |-> FALSE, text |-> <<>>]
                    ELSE [found |-> TRUE,
                          text |-> SubSeq(content, m.from, m.to - 1)]
    IN  Group(LeftmostBare({BareDouyinIdsMatchAt(content, i) :
                               i \in 1..Len(content)}))

\* The AppConfig read_js_config returns for the text of a file.
read_js_config(content) ==
    [appid |-> <<>>,
     app_id |-> extract_app_id(content).text,
     douyin_ids |-> extract_douyin_ids(content).text,
     appname |-> <<>>]

\* format!("appId=\"{}\"", config.app_id)
NewAppIdText(app_id) == BareAppId \o <<"=", "\"">> \o app_id \o <<"\"">>

\* format!("douyinIds=[{}]", config.douyin_ids)
NewDouyinIdsText(douyin_ids) ==
    BareDouyinIds \o <<"=", "[">> \o douyin_ids \o <<"]">>

\* re.replace_all(&content, new_val) for the identifier pattern: from i on,
\* every match, left to right and without overlap, becomes new_val.
RECURSIVE ReplaceAllAppId(_, _, _)
ReplaceAllAppId(s, i, new_val) ==
    LET Rest(m) ==
            IF m = NoBareMatch THEN SubSeq(s, i, Len(s))
            ELSE SubSeq(s, i, m.start - 1) \o new_val
                 \o ReplaceAllAppId(s, m.end, new_val)
    IN  Rest(LeftmostBare({BareAppIdMatchAt(s, j) : j \in i..Len(s)}))

\* re.replace_all(&content, new_val) for the list pattern.
RECURSIVE ReplaceAllDouyinIds(_, _, _)
ReplaceAllDouyinIds(s, i, new_val) ==
    LET Rest(m) ==
            IF m = NoBareMatch THEN SubSeq(s, i, Len(s))
            ELSE SubSeq(s, i, m.start - 1) \o new_val
                 \o ReplaceAllDouyinIds(s, m.end, new_val)
    IN  Rest(LeftmostBare({BareDouyinIdsMatchAt(s, j) : j \in i..Len(s)}))

\* The content write_js_config ends with for the content it read.
JsReplaceAll(content, config) ==
    ReplaceAllDouyinIds(
        ReplaceAllAppId(content, 1, NewAppIdText(config.app_id)),
        1, NewDouyinIdsText(config.douyin_ids))

-----------------------------------------------------------------------------
(* ui.rs (change_appconfig): the single-project editor.                    *)

\* AppConfig::is_empty
is_empty(config) ==
    /\ config.appid = <<>>
    /\ config.app_id = <<>>
    /\ config.douyin_ids = <<>>
    /\ config.appname = <<>>

\* The orders in which WalkDir, unsorted, may list the two scripts.
Walks == {<<"index_js", "app_js">>, <<"app_js", "index_js">>}

\* find_json_files: project.config.json at the top of the directory.
find_json_files(dir) ==
    IF dir.manifest.kind = "none" THEN <<>> ELSE <<"manifest">>

\* find_js_files: every .js file below the directory, in walk order.
find_js_files(dir, walk) == SelectSeq(walk, LAMBDA f : dir[f].kind # "none")

\* ui.rs 134-150: the first script that yields a field; the fields it lacks
\* keep their value.
LoadJs(config, dir, files) ==
    LET Merge(cfg) ==
            [config EXCEPT
                !.app_id = IF cfg.app_id # <<>> THEN cfg.app_id ELSE @,
                !.douyin_ids = IF cfg.douyin_ids # <<>> THEN cfg.douyin_ids
                               ELSE @]
        First(hits) ==
            IF hits = {} THEN config
            ELSE Merge(read_js_config(dir[files[Min(hits)]].body))
    IN  First({i \in DOMAIN files :
                  ~is_empty(read_js_config(dir[files[i]].body))})

\* ui.rs 124-131: a manifest that does not parse is passed over.
LoadJson(e, dir) ==
    IF JsonParses(dir.manifest)
    THEN [e EXCEPT !.config = read_json_config(dir.manifest),
                   !.status_message = Msg("loaded", 0, 0)]
    ELSE [e EXCEPT !.config = NoConfig]

\* BytegameConfigEditor::load_config, project_dir and walk being set.
editor_load_config(e, dir) ==
    LET Copy(loaded) == [loaded EXCEPT !.new_config = loaded.config]
        Scripts(loaded) ==
            Copy([loaded EXCEPT
                     !.config = LoadJs(@, dir, find_js_files(dir, e.walk))])
    IN  Scripts(LoadJson(e, dir))

\* ui.rs 170-177: a piece is quoted unless it begins and ends with '"'.
QuoteUnquoted(pieces) ==
    [i \in DOMAIN pieces |->
        IF pieces[i][1] = "\"" /\ pieces[i][Len(pieces[i])] = "\""
        THEN pieces[i]
        ELSE <<"\"">> \o pieces[i] \o <<"\"">>]

\* ui.rs 165-180: the list text formatted before it is written.
format_ids(douyin_ids) ==
    IF douyin_ids = <<>> THEN <<>>
    ELSE JoinComma(QuoteUnquoted(NonEmpty(TrimEach(SplitComma(douyin_ids)))))

\* A writer that inserts the keys the manifest lacks.
write_json_config_inserting(file, d, config, outcome) ==
    IF ~JsonParses(file)
    THEN [file |-> file, ok |-> FALSE,
          log |-> <<Call("read", d, "manifest", TRUE)>>]
    ELSE IF outcome = "write"
    THEN [file |-> file, ok |-> FALSE,
          log |-> <<Call("read", d, "manifest", TRUE),
                    Call("write", d, "manifest", FALSE)>>]
    ELSE [file |-> JsonFile(
              [k \in DOMAIN file.body |->
                  IF file.body[k].k = "appid"
                  THEN [file.body[k] EXCEPT !.v = JStr(config.appid)]
                  ELSE IF file.body[k].k = "projectname"
                  THEN [file.body[k] EXCEPT !.v = JStr(config.appname)]
                  ELSE file.body[k]]
              \o (IF HasKey(file.body, "appid")
                  THEN <<>>
                  ELSE <<[k |-> "appid", v |-> JStr(config.appid)]>>)),
          ok |-> TRUE,
          log |-> <<Call("read", d, "manifest", TRUE),
                    Call("write", d, "manifest", TRUE)>>]

\* json_handler.rs 53-81: the file is read again, the two keys it has are
\* set, and the tree is written back.
write_json_config(file, d, config, outcome) ==
    IF ~JsonParses(file)
    THEN [file |-> file, ok |-> FALSE,
          log |-> <<Call("read", d, "manifest", TRUE)>>]
    ELSE IF outcome = "write"
    THEN [file |-> file, ok |-> FALSE,
          log |-> <<Call("read", d, "manifest", TRUE),
                    Call("write", d, "manifest", FALSE)>>]
    ELSE [file |-> JsonFile(
              [k \in DOMAIN file.body |->
                  IF file.body[k].k = "appid"
                  THEN [file.body[k] EXCEPT !.v = JStr(config.appid)]
                  ELSE IF file.body[k].k = "projectname"
                  THEN [file.body[k] EXCEPT !.v = JStr(config.appname)]
                  ELSE file.body[k]]),
          ok |-> TRUE,
          log |-> <<Call("read", d, "manifest", TRUE),
                    Call("write", d, "manifest", TRUE)>>]

\* js_handler.rs 39-79: the file is written only if its content changed.
write_js_config(file, d, name, config, outcome) ==
    IF outcome = "read"
    THEN [file |-> file, ok |-> FALSE, modified |-> FALSE,
          log |-> <<Call("read", d, name, FALSE)>>]
    ELSE IF JsReplaceAll(file.body, config) = file.body
    THEN [file |-> file, ok |-> TRUE, modified |-> FALSE,
          log |-> <<Call("read", d, name, TRUE)>>]
    ELSE IF outcome = "write"
    THEN [file |-> file, ok |-> FALSE, modified |-> FALSE,
          log |-> <<Call("read", d, name, TRUE),
                    Call("write", d, name, FALSE)>>]
    ELSE [file |-> TextFile(JsReplaceAll(file.body, config)),
          ok |-> TRUE, modified |-> TRUE,
          log |-> <<Call("read", d, name, TRUE),
                    Call("write", d, name, TRUE)>>]

\* ui.rs 204-220: every script in turn, a failure notwithstanding.
RECURSIVE WriteScripts(_, _, _, _, _, _)
\* Variant: the first script that fails ends the loop.
WriteScriptsStopping(r, d, files, n, config, out) ==
    IF n > Len(files) THEN r
    ELSE LET Next1(w) ==
                 IF ~w.ok
                 THEN [dir |-> r.dir, modified |-> r.modified,
                       log |-> r.log \o w.log]
                 ELSE WriteScripts(
                          [dir |-> [r.dir EXCEPT ![files[n]] = w.file],
                           modified |-> IF w.modified
                                        THEN Append(r.modified, files[n])
                                        ELSE r.modified,
                           log |-> r.log \o w.log],
                          d, files, n + 1, config, out)
         IN  Next1(write_js_config(r.dir[files[n]], d, files[n], config,
                                   out[files[n]]))

WriteScripts(r, d, files, n, config, out) ==
    IF n > Len(files) THEN r
    ELSE LET Next1(w) ==
                 WriteScripts(
                     [dir |-> [r.dir EXCEPT ![files[n]] = w.file],
                      modified |-> IF w.modified
                                   THEN Append(r.modified, files[n])
                                   ELSE r.modified,
                      log |-> r.log \o w.log],
                     d, files, n + 1, config, out)
         IN  Next1(write_js_config(r.dir[files[n]], d, files[n], config,
                                   out[files[n]]))

\* BytegameConfigEditor::apply_modifications on the files of dir.
apply_modifications(e, d, dir, out) ==
    LET Done(cfg, r) ==
            [editor |-> [e EXCEPT !.new_config = cfg,
                                  !.config = cfg,
                                  !.is_modifying = FALSE,
                                  !.show_success = TRUE,
                                  !.modified_files = r.modified,
                                  !.status_message =
                                      Msg("modified", Len(r.modified), 0)],
             dir |-> r.dir, log |-> r.log]
        Scripts(cfg, json) ==
            IF ~json.ok
            THEN [editor |-> [e EXCEPT !.new_config = cfg,
                                       !.is_modifying = FALSE,
                                       !.modified_files = <<>>,
                                       !.status_message =
                                           Msg("json_failed", 0, 0)],
                  dir |-> dir, log |-> json.log]
            ELSE Done(cfg,
                      WriteScripts(
                          [dir |-> [dir EXCEPT !.manifest = json.file],
                           modified |-> find_json_files(dir),
                           log |-> json.log],
                          d, find_js_files(dir, e.walk), 1, cfg, out))
        Json(cfg) ==
            Scripts(cfg,
                    IF find_json_files(dir) = <<>>
                    THEN [file |-> dir.manifest, ok |-> TRUE, log |-> <<>>]
                    ELSE write_json_config(dir.manifest, d, cfg,
                                           out.manifest))
    IN  Json([e.new_config EXCEPT !.douyin_ids = format_ids(@),
                                  !.app_id = e.new_config.appid])

\* The texts typed into the editor's three fields.
EditorAppids == {<<>>, <<"n">>}

EditorIds == {<<>>, <<"k">>, <<"\"", "k", "\"", ",", " ", "m">>}

EditorNames == {<<"t">>}

\* The ways the file system may fail one run of apply_modifications: a file
\* that is not there does not fail.
EditorOutcomes(dir) ==
    {out \in [manifest : {"ok", "write"},
              index_js : {"ok", "read", "write"},
              app_js : {"ok", "read", "write"}] :
        /\ dir.manifest.kind # "json" => out.manifest = "ok"
        /\ dir.index_js.kind = "none" => out.index_js = "ok"
        /\ dir.app_js.kind = "none" => out.app_js = "ok"}

EditorStep(name, text, index, out) ==
    /\ ops < MaxOps
    /\ ops' = ops + 1
    /\ lastOp' = Op(name, text, index, out)
    /\ pre' = Snapshot
    /\ UNCHANGED <<root_path, projects, batch_appid, batch_projectname,
                   batch_douyin_ids, status_msg>>

\* "select directory" button: project_dir = path, load_config.
PickFolder ==
    \E d \in DOMAIN disk, walk \in Walks :
        /\ EditorStep("pick_folder", <<>>, d, walk)
        /\ editor' = editor_load_config(
                         [editor EXCEPT !.project_dir = d, !.walk = walk],
                         disk[d])
        /\ fsLog' = <<>>
        /\ UNCHANGED disk

\* The fields are shown once the loaded config is not empty.
TypeAppid ==
    \E text \in EditorAppids :
        /\ ~is_empty(editor.config)
        /\ EditorStep("type_appid", text, 0, <<>>)
        /\ editor' = [editor EXCEPT !.new_config.appid = text]
        /\ fsLog' = <<>>
        /\ UNCHANGED disk

TypeDouyinIds ==
    \E text \in EditorIds :
        /\ ~is_empty(editor.config)
        /\ EditorStep("type_douyin_ids", text, 0, <<>>)
        /\ editor' = [editor EXCEPT !.new_config.douyin_ids = text]
        /\ fsLog' = <<>>
        /\ UNCHANGED disk

TypeAppname ==
    \E text \in EditorNames :
        /\ ~is_empty(editor.config)
        /\ EditorStep("type_appname", text, 0, <<>>)
        /\ editor' = [editor EXCEPT !.new_config.appname = text]
        /\ fsLog' = <<>>
        /\ UNCHANGED disk

\* "apply" button.
ApplyModifications ==
    /\ ~is_empty(editor.config)
    /\ \E out \in EditorOutcomes(disk[editor.project_dir]) :
          LET Result(r) ==
                  /\ editor' = r.editor
                  /\ disk' = [disk EXCEPT ![editor.project_dir] = r.dir]
                  /\ fsLog' = r.log
          IN  /\ EditorStep("apply", <<>>, editor.project_dir, out)
              /\ Result(apply_modifications(editor, editor.project_dir,
                                            disk[editor.project_dir], out))

\* "reset" button.
Reset ==
    /\ ~is_empty(editor.config)
    /\ EditorStep("reset", <<>>, 0, <<>>)
    /\ editor' = [editor EXCEPT !.new_config = editor.config,
                                !.status_message = Msg("reset", 0, 0)]
    /\ fsLog' = <<>>
    /\ UNCHANGED disk

NextEditor ==
    \/ PickFolder
    \/ TypeAppid
    \/ TypeDouyinIds
    \/ TypeAppname
    \/ ApplyModifications
    \/ Reset

\* The projects the editor is pointed at.
EditorDisks ==
    ScriptDisks \cup {<<DirSpaced>>, <<DirBroken>>, <<DirNoScript>>}

InitEditor ==
    /\ disk \in EditorDisks
    /\ root_path = "none"
    /\ projects = <<>>
    /\ batch_appid = <<>>
    /\ batch_projectname = <<>>
    /\ batch_douyin_ids = <<>>
    /\ status_msg = Msg("ready", 0, 0)
    /\ ops = 0
    /\ lastOp = Op("new", <<>>, 0, <<>>)
    /\ fsLog = <<>>
    /\ editor = IdleEditor
    /\ pre = Snapshot

\* The editor run on one project.
SpecEditor == InitEditor /\ [][NextEditor]_vars

-----------------------------------------------------------------------------
(* C19: script replace changes nothing but the two field values.           *)

\* The empty range right after range m.
After(m) == [from |-> m.to, to |-> m.to]

\* new is old with the text of range a and the text of range b, a before b,
\* each replaced by some text: what precedes a, what lies between a and b
\* and what follows b are in new, in this order and with nothing else.
Framed(old, new, a, b) ==
    \E x \in a.from..(Len(new) + 1) :
        /\ a.from - 1 <= Len(new)
        /\ SubSeq(new, 1, a.from - 1) = SubSeq(old, 1, a.from - 1)
        /\ x + (b.from - a.to) <= b.to + Len(new) - Len(old)
        /\ SubSeq(new, x, x + (b.from - a.to) - 1)
               = SubSeq(old, a.to, b.from - 1)
        /\ SubSeq(new, b.to + Len(new) - Len(old), Len(new))
               = SubSeq(old, b.to, Len(old))

\* new differs from old in the value of the first identifier assignment and
\* in the interior of the first list assignment at most.
OnlyFieldValuesChanged(old, new) ==
    LET Ranges(mi, ml) ==
            IF mi = NoMatch /\ ml = NoMatch THEN new = old
            ELSE IF ml = NoMatch THEN Framed(old, new, mi, After(mi))
            ELSE IF mi = NoMatch THEN Framed(old, new, ml, After(ml))
            ELSE IF mi.from < ml.from THEN Framed(old, new, mi, ml)
            ELSE Framed(old, new, ml, mi)
    IN  Ranges(FirstAppIdMatch(old), FirstDouyinIdsMatch(old))

\* The script files the last handler wrote.
ScriptWrites ==
    {c \in {fsLog[k] : k \in DOMAIN fsLog} :
        c.op = "write" /\ c.ok /\ c.file # "manifest"}

\* d.appId="n" and d.douyinIds=["k","m"]
NewAppIdAssignment ==
    <<"d">> \o LitAppId \o <<"=", "\"", "n", "\"">>

NewDouyinIdsAssignment ==
    <<"d">> \o LitDouyinIds
        \o <<"=", "[", "\"", "k", "\"", ",", "\"", "m", "\"", "]">>

\* C19: every script file a handler writes differs from the content it had
\* in the value of its first identifier assignment and in the bracket
\* contents of its first list assignment only: the prefix, the whitespace
\* around '=', later occurrences of either pattern and the surrounding code
\* are unchanged.  Applying identifier n and list k, m to the embedded
\* example yields content containing d.appId="n" and d.douyinIds=["k","m"].
C19_ReplaceChangesOnlyTheTwoValues ==
    \A c \in ScriptWrites :
        /\ OnlyFieldValuesChanged(pre.disk[c.dir][c.file].body,
                                  disk[c.dir][c.file].body)
        /\ (/\ lastOp.op = "apply"
            /\ pre.disk[c.dir][c.file].body = ScriptEmbedded
            /\ editor.config.app_id = <<"n">>
            /\ editor.config.douyin_ids
                   = <<"\"", "k", "\"", ",", "\"", "m", "\"">>)
           => /\ Contains(disk[c.dir][c.file].body, NewAppIdAssignment)
              /\ Contains(disk[c.dir][c.file].body, NewDouyinIdsAssignment)

-----------------------------------------------------------------------------
(* C20: replacing with the field set just extracted changes nothing.       *)

\* The script of record i when the handler started.
ScriptBefore(i) ==
    pre.disk[pre.projects[i].path][pre.projects[i].js_path].body

\* The script of record i now.
ScriptAfter(i) ==
    disk[pre.projects[i].path][pre.projects[i].js_path].body

\* Record i held the field set its script extracts to, and the handler
\* wrote the script.
WroteExtracted(i) ==
    /\ pre.projects[i].js_path # "none"
    /\ pre.projects[i].js_config = SomeJs(load_js_config(ScriptBefore(i)))
    /\ \E c \in ScriptWrites :
          c.dir = pre.projects[i].path /\ c.file = pre.projects[i].js_path

\* C20: a script saved with the ScriptFieldSet that was extracted from it,
\* unmodified, is byte-identical to what it was, also when its list holds
\* spaces after commas or single-quoted elements.
C20_ReplaceOfExtractedIsIdentity ==
    IsSaveAll =>
        \A i \in DOMAIN pre.projects :
            WroteExtracted(i) => ScriptAfter(i) = ScriptBefore(i)

-----------------------------------------------------------------------------
(* C21: a script is written only when its content changed.                 *)

\* C21: whenever a handler writes a script file, the content written
\* differs from the content the file had: a replace that produces the
\* content read from disk leads to no write at all.
C21_ScriptWrittenOnlyWhenChanged ==
    \A c \in ScriptWrites :
        disk[c.dir][c.file].body # pre.disk[c.dir][c.file].body

-----------------------------------------------------------------------------
(* C22: a script with neither pattern.                                     *)

\* The positions of s that hold a list assignment  .douyinIds = [ ... ].
ListAssignments(s) ==
    {i \in 1..Len(s) :
        \E w1 \in Spacings, w2 \in Spacings, close \in i..Len(s) :
            /\ LitAt(s, i, LitDouyinIds \o w1 \o <<"=">> \o w2 \o <<"[">>)
            /\ close >= i + Len(LitDouyinIds) + Len(w1) + Len(w2) + 2
            /\ s[close] = "]"}

\* s holds neither an identifier assignment nor a list assignment.
NeitherPattern(s) == ValueAssignments(s) = {} /\ ListAssignments(s) = {}


\* C22: a scanned script that holds neither pattern yields a script field
\* set with the identifier "" and the list [], and a save of its record
\* leaves the script as it was whatever the field set has become; the save
\* fails only if the file system does.
C22_NeitherPatternIsNoOp ==
    /\ IsScan =>
          \A i \in DOMAIN projects :
              (projects[i].js_path # "none" /\ NeitherPattern(ScriptOf(disk, i)))
                  => /\ projects[i].js_config.some
                     /\ projects[i].js_config.app_id = <<>>
                     /\ projects[i].js_config.douyin_ids = <<>>
    /\ IsSaveAll =>
          \A i \in Records :
              (pre.projects[i].js_path # "none" /\ NeitherPattern(ScriptBefore(i)))
                  => /\ ScriptAfter(i) = ScriptBefore(i)
                     /\ (\A k \in DOMAIN lastOp.out : lastOp.out[k] = "ok")
                            => ~SaveFailed(fsLog, i)

\* A record whose script holds neither pattern was saved with an identifier
\* and a list typed in.
C22_Witness ==
    /\ IsSaveAll
    /\ \E i \in Records :
          /\ pre.projects[i].js_path # "none"
          /\ NeitherPattern(ScriptBefore(i))
          /\ pre.projects[i].js_config.app_id # <<>>
          /\ pre.projects[i].js_config.douyin_ids_str # <<>>
          /\ SaveSucceeded(fsLog, i)

-----------------------------------------------------------------------------
(* C23: the identifier is written in double quotes.                        *)

\* The first identifier assignment of s, value range and all.
FirstAssignment(s) ==
    LeftmostBare({BareAppIdMatchAt(s, i) : i \in 1..Len(s)})

\* The value of the first identifier assignment of s stands between two
\* double quotes.
InDoubleQuotes(s) ==
    LET Around(m) == s[m.from - 1] = "\"" /\ s[m.to] = "\""
    IN  Around(FirstAssignment(s))

\* C23: a script file that held an identifier assignment and was written by
\* a handler holds the value of its first identifier assignment in double
\* quotes, whatever quotes it had:  .appId='old'  becomes  .appId="new".
C23_IdentifierWrittenInDoubleQuotes ==
    \A c \in ScriptWrites :
        FirstAssignment(pre.disk[c.dir][c.file].body) # NoBareMatch
            => InDoubleQuotes(disk[c.dir][c.file].body)

-----------------------------------------------------------------------------
(* C24: the list written is derived from the editable string.              *)

\* The script of record i was written by the handler.
ScriptWritten(i) ==
    \E c \in ScriptWrites :
        c.dir = pre.projects[i].path /\ c.file = pre.projects[i].js_path

\* The bracket contents of the first list assignment of s.
BracketContents(s) == Captured(s, FirstDouyinIdsMatch(s))

\* C24: the bracket contents a save writes are the pieces of the record's
\* douyin_ids_str, split on commas, trimmed, the empty ones dropped, each in
\* double quotes and joined by commas without spaces, whatever the stored
\* list is: z,w is written as ["z","w"] and a string with no piece as [].
C24_ListWrittenFromEditableString ==
    IsSaveAll =>
        \A i \in Records :
            (/\ pre.projects[i].js_path # "none"
             /\ ScriptWritten(i)
             /\ ListAssignments(ScriptBefore(i)) # {})
                => /\ BracketContents(ScriptAfter(i))
                          = JoinComma(QuoteEach(SplitIds(
                                pre.projects[i].js_config.douyin_ids_str)))
                   /\ pre.projects[i].js_config.douyin_ids_str
                          = <<"z", ",", "w">>
                      => BracketContents(ScriptAfter(i))
                             = <<"\"", "z", "\"", ",", "\"", "w", "\"">>
                   /\ pre.projects[i].js_config.douyin_ids_str = <<",">>
                      => BracketContents(ScriptAfter(i)) = <<>>

\* A script was written for a record whose string had been edited away
\* from its stored list.
C24_Witness ==
    /\ IsSaveAll
    /\ \E i \in Records :
          /\ pre.projects[i].js_path # "none"
          /\ ScriptWritten(i)
          /\ ListAssignments(ScriptBefore(i)) # {}
          /\ pre.projects[i].js_config.douyin_ids_str = <<"z", ",", "w">>
          /\ pre.projects[i].js_config.douyin_ids # << <<"z">>, <<"w">> >>

-----------------------------------------------------------------------------
(* scanner.rs 42, 54-58: a script the scan cannot read.                    *)

\* The reads of a script that may fail during one scan: the read of the
\* content sniff or the read of load_js_config, of one script of the tree.
ReadFailures(tree) ==
    {fail \in [dir : DOMAIN tree, file : {"index_js", "app_js"},
               read : {"sniff", "load"}] :
        tree[fail.dir][fail.file].kind = "text"}

\* Variant: a script that cannot be loaded takes its project with it.
scan_unreadable_dropping(tree, fail) ==
    IF fail.read = "sniff"
    THEN scan_directory([tree EXCEPT ![fail.dir][fail.file] = NoFile])
    ELSE SelectSeq(scan_directory(tree),
                   LAMBDA item : ~(item.path = fail.dir
                                   /\ item.js_path = fail.file))

\* scan_directory when the read named by fail is an Err: a candidate whose
\* sniff fails is passed over as if it were not there (scanner.rs 42), and
\* an accepted script that load_js_config cannot read keeps its path and
\* gets no js_config (scanner.rs 54-58).
scan_unreadable(tree, fail) ==
    IF fail.read = "sniff"
    THEN scan_directory([tree EXCEPT ![fail.dir][fail.file] = NoFile])
    ELSE LET Unloaded(items) ==
                 [i \in DOMAIN items |->
                     IF items[i].path = fail.dir
                        /\ items[i].js_path = fail.file
                     THEN [items[i] EXCEPT !.js_config = NoJs]
                     ELSE items[i]]
         IN  Unloaded(scan_directory(tree))

\* "select root" button while a read fails.
SelectFolderUnreadable ==
    \E fail \in ReadFailures(disk) :
        /\ Step("select_folder", <<>>, 0, fail)
        /\ root_path' = "root"
        /\ projects' = scan_unreadable(disk, fail)
        /\ batch_appid' = <<>>
        /\ batch_projectname' = <<>>
        /\ batch_douyin_ids' = <<>>
        /\ status_msg' = Msg("scanned", Len(projects'), 0)
        /\ fsLog' = <<>>
        /\ UNCHANGED disk

\* "refresh" button while a read fails.
RefreshUnreadable ==
    \E fail \in ReadFailures(disk) :
        /\ root_path # "none"
        /\ Step("refresh", <<>>, 0, fail)
        /\ projects' = scan_unreadable(disk, fail)
        /\ status_msg' = Msg("scanned", Len(projects'), 0)
        /\ fsLog' = <<>>
        /\ UNCHANGED <<disk, root_path, batch_appid, batch_projectname,
                       batch_douyin_ids>>

NextUnreadable == Next \/ SelectFolderUnreadable \/ RefreshUnreadable

\* The tool on a file system whose reads may fail.
SpecUnreadable == Init /\ [][NextUnreadable]_vars

-----------------------------------------------------------------------------
(* C25: which companion script a record gets.                              *)

\* The scan's read of the content sniff of script f of directory d failed.
SniffFailed(d, f) ==
    /\ lastOp.out # <<>>
    /\ lastOp.out = [dir |-> d, file |-> f, read |-> "sniff"]

\* Script f of directory d exists, is readable and holds a marker.
Qualifies(d, f) ==
    /\ disk[d][f].kind = "text"
    /\ ~SniffFailed(d, f)
    /\ \/ Contains(disk[d][f].body, <<"a", "p", "p", "I", "d">>)
       \/ Contains(disk[d][f].body,
                   <<"d", "o", "u", "y", "i", "n", "I", "d", "s">>)

\* C25: after a scan every record has as its script the first of
\* assets/main/index.js and application.js, in this order, that exists, is
\* readable and contains appId or douyinIds; a candidate without a marker
\* is passed over for the next, and a record none of whose candidates
\* qualifies has no script path and no script field set.
C25_FirstQualifyingCandidate ==
    IsScan =>
        \A i \in DOMAIN projects :
            /\ projects[i].js_path = "index_js"
                   <=> Qualifies(projects[i].path, "index_js")
            /\ projects[i].js_path = "app_js"
                   <=> /\ ~Qualifies(projects[i].path, "index_js")
                       /\ Qualifies(projects[i].path, "app_js")
            /\ projects[i].js_path = "none" => ~projects[i].js_config.some

\* A scan passed over an index.js without a marker and took application.js.
C25_Witness ==
    /\ IsScan
    /\ \E i \in DOMAIN projects :
          /\ projects[i].js_path = "app_js"
          /\ disk[projects[i].path].index_js.kind = "text"
          /\ ~SniffFailed(projects[i].path, "index_js")

-----------------------------------------------------------------------------
(* C26: script path and script field set go together.                      *)

\* The scan's read of script f of directory d in load_js_config failed.
LoadFailed(d, f) ==
    /\ lastOp.out # <<>>
    /\ lastOp.out = [dir |-> d, file |-> f, read |-> "load"]

\* Every manifest the walk reaches and loads has its record.
NoProjectLost ==
    \A d \in DOMAIN disk :
        Loadable(d) => \E i \in DOMAIN projects : projects[i].path = d

-----------------------------------------------------------------------------
(* C27: the identifier on disk follows the record.                         *)

\* The value of the first identifier assignment of s.
FirstValue(s) ==
    LET Value(m) == SubSeq(s, m.from, m.to - 1)
    IN  Value(FirstAssignment(s))

\* C27: when a save writes the script of a record and the script held an
\* identifier assignment, be it of the empty string, the first identifier
\* assignment of the script then holds the record's script identifier: an
\* identifier saved as empty and then edited again is on disk after the
\* next save.
C27_IdentifierOnDiskFollowsRecord ==
    IsSaveAll =>
        \A i \in Records :
            (/\ pre.projects[i].js_path # "none"
             /\ ScriptWritten(i)
             /\ FirstAssignment(ScriptBefore(i)) # NoBareMatch)
                => /\ FirstAssignment(ScriptAfter(i)) # NoBareMatch
                   /\ FirstValue(ScriptAfter(i))
                          = pre.projects[i].js_config.app_id

-----------------------------------------------------------------------------
(* C28: what sets and what clears the dirty flag.                          *)

\* The last handler changed a manifest field or a script field of record i.
FieldsChanged(i) ==
    \/ projects[i].config # pre.projects[i].config
    \/ projects[i].js_config # pre.projects[i].js_config

\* C28: but for a scan, which replaces the whole list, a record that was
\* dirty is clean after a handler only if the handler is save_all and its
\* save of that record succeeded: batch edits, direct edits, selection
\* changes and failed saves leave it dirty; and a record of which an edit
\* changed a manifest field or a script field is dirty.
C28_DirtyFlagLifecycle ==
    (~IsScan /\ lastOp.op # "new") =>
        \A i \in Records :
            /\ (WasDirty(i) /\ ~projects[i].is_modified)
                   => (IsSaveAll /\ SaveSucceeded(fsLog, i))
            /\ FieldsChanged(i) => projects[i].is_modified

\* A save failed on a dirty record, which is dirty still, after another
\* handler had toggled its selection.
C28_Witness ==
    /\ IsSaveAll
    /\ \E i \in Records :
          /\ WasDirty(i)
          /\ SaveFailed(fsLog, i)
          /\ projects[i].is_modified
          /\ ~projects[i].selected

-----------------------------------------------------------------------------
(* C29: write_json_config never adds or removes a top-level key: the keys  *)
(* of the manifest after a successful write are those before it, in the    *)
(* same order; a manifest without "appid" or "projectname" does not take   *)
(* the new value, and its write still succeeds.                            *)

KeysOf(file) == [k \in DOMAIN file.body |-> file.body[k].k]

\* The directories whose manifest the last operation wrote.
ManifestWrites ==
    {c.dir : c \in {fsLog[n] : n \in DOMAIN fsLog} \cap
                   {Call("write", d, "manifest", TRUE) : d \in DOMAIN disk}}

C29_ManifestKeysKept ==
    lastOp.op = "apply" =>
        /\ \A d \in ManifestWrites :
              /\ JsonParses(disk[d].manifest)
              /\ KeysOf(disk[d].manifest) = KeysOf(pre.disk[d].manifest)
        /\ \A d \in DOMAIN disk :
              (/\ d = pre.editor.project_dir
               /\ JsonParses(pre.disk[d].manifest)
               /\ lastOp.out.manifest = "ok")
                  => /\ d \in ManifestWrites
                     /\ editor.show_success
                     /\ editor.modified_files # <<>>
                     /\ editor.modified_files[1] = "manifest"

C29_Witness ==
    /\ lastOp.op = "apply"
    /\ \E d \in ManifestWrites :
          /\ ~HasKey(pre.disk[d].manifest.body, "appid")
          /\ ~HasKey(disk[d].manifest.body, "appid")
          /\ editor.config.appid # <<>>
          /\ editor.show_success

-----------------------------------------------------------------------------
(* C30: in the editor's apply_modifications a failure of the manifest      *)
(* write ends the operation before any script is read or written and       *)
(* leaves the loaded config as it was; a failure on one script does not    *)
(* keep the remaining scripts from being processed; is_modifying is false  *)
(* on every exit; and when the operation runs to the end the loaded config *)
(* is the edited config, its script identifier equal to its manifest one.  *)

\* write_json_config returned Err in the last operation.
ManifestFailed ==
    /\ fsLog # <<>>
    /\ fsLog[1].file = "manifest"
    /\ ManifestWrites = {}

\* The scripts the last operation read or tried to read, in order.
ScriptsProcessed ==
    LET Reads == SelectSeq(fsLog, LAMBDA c : c.op = "read" /\ c.file # "manifest")
    IN  [n \in DOMAIN Reads |-> Reads[n].file]

\* A script call of the last operation failed.
ScriptFailedAt(n) ==
    /\ n \in DOMAIN fsLog
    /\ fsLog[n].file # "manifest"
    /\ ~fsLog[n].ok

C30_ApplyFailureHandling ==
    lastOp.op = "apply" =>
        /\ ~editor.is_modifying
        /\ ManifestFailed =>
              /\ \A n \in DOMAIN fsLog : fsLog[n].file = "manifest"
              /\ disk = pre.disk
              /\ editor.config = pre.editor.config
        /\ ~ManifestFailed =>
              /\ ScriptsProcessed =
                     find_js_files(pre.disk[pre.editor.project_dir],
                                   pre.editor.walk)
              /\ editor.config = editor.new_config
              /\ editor.config.app_id = editor.config.appid

C30_Witness ==
    /\ lastOp.op = "apply"
    /\ ~ManifestFailed
    /\ \E n \in DOMAIN fsLog :
          /\ ScriptFailedAt(n)
          /\ \E m \in DOMAIN fsLog :
                /\ m > n
                /\ fsLog[m] = Call("write", fsLog[m].dir, fsLog[m].file, TRUE)
                /\ fsLog[m].file # fsLog[n].file
    /\ editor.config.app_id # pre.editor.config.app_id

\* The manifest write failed with scripts waiting and an edit pending.
C30_WitnessAborted ==
    /\ lastOp.op = "apply"
    /\ ManifestFailed
    /\ find_js_files(pre.disk[pre.editor.project_dir], pre.editor.walk) # <<>>
    /\ pre.editor.new_config.appid # pre.editor.config.appid

=============================================================================
